---- MODULE Spec2Model ----
(***************************************************************************)
(* Backend relay service of gcp-billing-ai (src/web/backend): the          *)
(* credential store (auth.py), the history store (history.py), the agent   *)
(* registry cache and the streaming relay (main.py).                       *)
(*                                                                         *)
(* Conventions.  A Python Optional is a sequence: <<>> is None and <<v>>   *)
(* is the value v.  A Python dict is a function (a record when its keys    *)
(* are fixed); "k in d" is k \in DOMAIN d.  A JSON event is a record whose *)
(* DOMAIN is exactly the keys of the object.  Text is a TLA+ string and    *)
(* += on text is \o.  An HTTP body is a sequence of characters.            *)
(***************************************************************************)
EXTENDS Integers, Sequences, FiniteSets, TLC

VARIABLES
    now,        \* wall clock (seconds); time.time(), SERVER_TIMESTAMP, jwt "exp" check
    adb,        \* auth.db is not None
    users,      \* Firestore collection "users": document id -> document
    hdb,        \* history.db is not None
    docs,       \* Firestore collection "query_history": document id -> document
    cache,      \* main._agent_configs_cache (Optional[Dict])
    cacheTime,  \* main._agent_configs_cache_time
    rq,         \* one entry per /query/stream request: the generator's locals and what it did
    su,         \* one entry per create_user call in flight: its arguments and position
    last        \* the last call of a store / registry / credential operation and its result

vars == <<now, adb, users, hdb, docs, cache, cacheTime, rq, su, last>>

None == <<>>
Some(v) == <<v>>

Min(a, b) == IF a < b THEN a ELSE b
Max(a, b) == IF a > b THEN a ELSE b

(***************************************************************************)
(* Bounds of the model.                                                    *)
(***************************************************************************)
MaxFrames == 2      \* lines one upstream response delivers before it ends
MaxTicks == 2       \* clock ticks in one behaviour
MaxDocs == 3        \* history documents the store tests hold at once

(***************************************************************************)
(* Program constants.                                                      *)
(***************************************************************************)
AGENT_CONFIGS_CACHE_TTL == 300
ACCESS_TOKEN_EXPIRE_MINUTES == 10080
ERROR_TEXT_LIMIT == 500
HTTP_OK == 200

(***************************************************************************)
(* CREDENTIAL STORE (auth.py)                                              *)
(*                                                                         *)
(* An email is the sequence of its "@"-separated segments, as             *)
(* email.split("@") gives them; a segment is a lowercase spelling and a    *)
(* flag telling whether the text as typed has upper-case letters.  A       *)
(* password is a sequence of one-byte characters.                          *)
(***************************************************************************)
REQUIRED_DOMAIN == [s |-> "asl.apps-eval.com", upper |-> FALSE]
SECRET_KEY == "server"
ALGORITHM == "HS256"
USERS_COLLECTION == "users"

TOKEN_LIFETIME == ACCESS_TOKEN_EXPIRE_MINUTES * 60

UserIds == {"u1", "u2"}

Seg(s) == [s |-> s, upper |-> FALSE]
SegUpper(s) == [s |-> s, upper |-> TRUE]
EmAlice == <<Seg("alice"), REQUIRED_DOMAIN>>
EmAliceTyped == <<SegUpper("alice"), REQUIRED_DOMAIN>>
EmBob == <<Seg("bob"), REQUIRED_DOMAIN>>
EmOutside == <<Seg("eve"), Seg("evil.example")>>
EmNoAt == <<Seg("alice")>>
Emails == {EmAlice, EmAliceTyped, EmBob, EmOutside, EmNoAt}
\* "eve@asl.apps-eval.com@evil.example" and "alice@ASL.APPS-EVAL.COM"
EmTwoAts == <<Seg("eve"), REQUIRED_DOMAIN, Seg("evil.example")>>
EmUpperDomain == <<Seg("alice"), [REQUIRED_DOMAIN EXCEPT !.upper = TRUE]>>
\* The strings create_user may be handed as an email
DomainEmails == Emails \cup {EmTwoAts, EmUpperDomain}

PwSecret == <<"s", "e", "c", "r", "e", "t", "1">>
PwOther == <<"h", "u", "n", "t", "e", "r", "2">>
PwShort == <<"a", "b", "c">>
\* "secret1 ": the same with a trailing blank
PwPadded == <<"s", "e", "c", "r", "e", "t", "1", " ">>
\* 72 and 73 one-byte characters
Pw72 == [i \in 1 .. 72 |-> "x"]
Pw73 == [i \in 1 .. 73 |-> "x"]
Passwords == {PwSecret, PwOther, PwShort}
\* Passwords at the edges of what get_password_hash normalises
EdgePasswords == {PwSecret, PwShort, PwPadded, Pw72, Pw73}

\* str.lower()
Lower(email) == [i \in DOMAIN email |-> [email[i] EXCEPT !.upper = FALSE]]

\* str.strip(): the model's whitespace character is " "
RECURSIVE LStrip(_)
LStrip(p) == IF p # <<>> /\ Head(p) = " " THEN LStrip(Tail(p)) ELSE p
RECURSIVE RStrip(_)
RStrip(p) == IF p # <<>> /\ p[Len(p)] = " " THEN RStrip(SubSeq(p, 1, Len(p) - 1)) ELSE p
Strip(p) == RStrip(LStrip(p))

\* password_bytes[:72].decode(): every character of the model is one byte
BCRYPT_MAX_BYTES == 72
Truncate72(p) == SubSeq(p, 1, Min(Len(p), BCRYPT_MAX_BYTES))

\* pwd_context.hash: one-way, so the hash is a tagged value compared only by verify
BcryptHash(p) == [scheme |-> "bcrypt", of |-> p]

\* get_password_hash: the hash, or None when it raises ValueError
get_password_hash(password) ==
    LET stripped == Strip(password)
        cut == IF Len(stripped) > BCRYPT_MAX_BYTES THEN Truncate72(stripped) ELSE stripped
    IN  IF cut = <<>> THEN None ELSE Some(BcryptHash(cut))

verify_password(plain, hashed) == hashed = BcryptHash(plain)

validate_email_domain(email) ==
    IF email = <<>> \/ Len(email) < 2 THEN FALSE ELSE email[2] = REQUIRED_DOMAIN

\* users_ref.where("email", "==", e).limit(1).stream()
UsersWithEmail(e) == {id \in DOMAIN users : users[id].email = e}

\* create_user: [error, user_id] for a fresh document id `fresh`
create_user_check(email, password) ==
    IF ~adb THEN "StoreUnavailable"
    ELSE IF ~validate_email_domain(email) THEN "InvalidDomain"
    ELSE IF Len(password) < 6 THEN "InvalidPassword"
    ELSE IF UsersWithEmail(Lower(email)) # {} THEN "DuplicateAccount"
    ELSE IF get_password_hash(password) = None THEN "InvalidPassword"
    ELSE "ok"

NewUserDoc(fresh, email, password) ==
    [user_id |-> fresh, email |-> Lower(email),
     password_hash |-> get_password_hash(password)[1],
     created_at |-> now, updated_at |-> now, deleted_at |-> None, active |-> TRUE]

\* Mutant of authenticate_user: the "active" flag is not looked at
authenticate_user_any(email, password) ==
    IF ~adb THEN None
    ELSE LET found == UsersWithEmail(Lower(email))
         IN  IF found = {} THEN None
             ELSE LET d == users[CHOOSE id \in found : TRUE]
                      pw == IF Len(password) > BCRYPT_MAX_BYTES
                            THEN Truncate72(password) ELSE password
                  IN  IF ~verify_password(pw, d.password_hash) THEN None
                      ELSE Some([user_id |-> d.user_id, email |-> d.email])

\* authenticate_user: Some([user_id, email]) or None
authenticate_user(email, password) ==
    IF ~adb THEN None
    ELSE LET found == UsersWithEmail(Lower(email))
         IN  IF found = {} THEN None
             ELSE LET d == users[CHOOSE id \in found : TRUE]
                      pw == IF Len(password) > BCRYPT_MAX_BYTES
                            THEN Truncate72(password) ELSE password
                  IN  IF ~d.active THEN None
                      ELSE IF ~verify_password(pw, d.password_hash) THEN None
                      ELSE Some([user_id |-> d.user_id, email |-> d.email])

\* Mutant of get_user_by_id: the "active" flag is not looked at
get_user_by_id_any(user_id) ==
    IF ~adb THEN None
    ELSE IF user_id \notin DOMAIN users THEN None
    ELSE Some([user_id |-> users[user_id].user_id, email |-> users[user_id].email,
               created_at |-> users[user_id].created_at])

\* get_user_by_id: Some(user without the hash) or None
get_user_by_id(user_id) ==
    IF ~adb THEN None
    ELSE IF user_id \notin DOMAIN users THEN None
    ELSE IF ~users[user_id].active THEN None
    ELSE Some([user_id |-> users[user_id].user_id, email |-> users[user_id].email,
               created_at |-> users[user_id].created_at])

\* create_access_token(data={"sub", "email"}): signed with SECRET_KEY, exp = utcnow + 7 days
create_access_token(user) ==
    [sub |-> Some(user.user_id), email |-> user.email, key |-> SECRET_KEY,
     exp |-> now + TOKEN_LIFETIME]

\* decode_token: jwt.decode checks the signature and "exp"; a payload without "sub" is refused
decode_token(token) ==
    IF token.key # SECRET_KEY THEN None
    ELSE IF token.exp < now THEN None
    ELSE IF token.sub = None THEN None
    ELSE Some([user_id |-> token.sub[1], email |-> token.email])

\* The verify_token dependency: [status, claims]
verify_token(token) ==
    LET decoded_token == decode_token(token)
    IN  IF decoded_token = None THEN [status |-> 401, claims |-> None]
        ELSE IF get_user_by_id(decoded_token[1].user_id) = None
             THEN [status |-> 401, claims |-> None]
        ELSE [status |-> 200, claims |-> decoded_token]

\* Every bearer token a caller can present, forged and stale ones included
Tokens ==
    { [sub |-> s, email |-> EmAlice, key |-> k, exp |-> e] :
        s \in {Some(u) : u \in UserIds} \cup {None},
        k \in {SECRET_KEY, "forged"},
        e \in {TOKEN_LIFETIME, 2 * TOKEN_LIFETIME} }


\* Mutant of delete_user: the user document is removed
delete_user_hard(user_id) ==
    IF ~adb THEN [ret |-> FALSE, users |-> users]
    ELSE IF user_id \notin DOMAIN users THEN [ret |-> FALSE, users |-> users]
    ELSE [ret |-> TRUE, users |-> [u \in DOMAIN users \ {user_id} |-> users[u]]]

\* delete_user: soft delete; [ret, users]
delete_user(user_id) ==
    IF ~adb THEN [ret |-> FALSE, users |-> users]
    ELSE IF user_id \notin DOMAIN users THEN [ret |-> FALSE, users |-> users]
    ELSE [ret |-> TRUE,
          users |-> [users EXCEPT ![user_id] =
                        [@ EXCEPT !.active = FALSE, !.updated_at = now,
                                  !.deleted_at = Some(now)]]]

\* create_user as the store sees it: the existence query and the document write
\* are two operations, and other calls run between them.
IdleSignup == [pc |-> "idle", email |-> <<>>, password |-> <<>>, ret |-> "", user_id |-> None]

\* Lines 138-154: validation and the existence query
CreateUserCheck(p, email, password) ==
    /\ su[p].pc = "idle"
    /\ LET verdict == create_user_check(email, password)
       IN  su' = [su EXCEPT ![p] =
                    IF verdict = "ok"
                    THEN [@ EXCEPT !.pc = "checked", !.email = email, !.password = password]
                    ELSE [@ EXCEPT !.pc = "done", !.email = email, !.password = password,
                                   !.ret = verdict]]
    /\ last' = [op |-> "create_user_check", p |-> p]
    /\ UNCHANGED <<now, adb, users, hdb, docs, cache, cacheTime, rq>>

\* Lines 156-175: the new id, the document write, the return
CreateUserWrite(p) ==
    /\ su[p].pc = "checked"
    /\ \E fresh \in UserIds \ DOMAIN users :
          /\ users' = (fresh :> NewUserDoc(fresh, su[p].email, su[p].password)) @@ users
          /\ su' = [su EXCEPT ![p] = [@ EXCEPT !.pc = "done", !.ret = "ok",
                                                !.user_id = Some(fresh)]]
    /\ last' = [op |-> "create_user_write", p |-> p]
    /\ UNCHANGED <<now, adb, hdb, docs, cache, cacheTime, rq>>

\* The caller of create_user got its answer
CreateUserReturn(p) ==
    /\ su[p].pc = "done"
    /\ su' = [su EXCEPT ![p] = IdleSignup]
    /\ last' = [op |-> "create_user_return", p |-> p]
    /\ UNCHANGED <<now, adb, users, hdb, docs, cache, cacheTime, rq>>

\* POST /auth/signup
Signup(email, password) ==
    LET verdict == create_user_check(email, password)
    IN  /\ IF verdict = "ok"
           THEN \E fresh \in UserIds \ DOMAIN users :
                    /\ users' = (fresh :> NewUserDoc(fresh, email, password)) @@ users
                    /\ last' = [op |-> "create_user", email |-> email, password |-> password,
                                ret |-> "ok", user_id |-> Some(fresh)]
           ELSE /\ users' = users
                /\ last' = [op |-> "create_user", email |-> email, password |-> password,
                            ret |-> verdict, user_id |-> None]
        /\ UNCHANGED <<now, adb, hdb, docs, cache, cacheTime, rq, su>>

\* The response of POST /auth/login for what authenticate_user returned
LoginResponse(user) ==
    IF user = None
    THEN [status |-> 401, detail |-> "Invalid email or password", token |-> None]
    ELSE [status |-> 200, detail |-> "", token |-> Some(create_access_token(user[1]))]

\* POST /auth/login
Login(email, password) ==
    LET user == authenticate_user(email, password)
    IN  /\ last' = [op |-> "login", email |-> email, password |-> password,
                    user |-> user,
                    status |-> LoginResponse(user).status,
                    detail |-> LoginResponse(user).detail,
                    token |-> LoginResponse(user).token]
        /\ UNCHANGED <<now, adb, users, hdb, docs, cache, cacheTime, rq, su>>

\* GET /auth/me
AuthMe(token) ==
    LET v == verify_token(token)
    IN  /\ last' = IF v.status # 200
                   THEN [op |-> "auth_me", token |-> token, status |-> v.status, user |-> None]
                   ELSE IF get_user_by_id(v.claims[1].user_id) = None
                   THEN [op |-> "auth_me", token |-> token, status |-> 404, user |-> None]
                   ELSE [op |-> "auth_me", token |-> token, status |-> 200,
                         user |-> get_user_by_id(v.claims[1].user_id)]
        /\ UNCHANGED <<now, adb, users, hdb, docs, cache, cacheTime, rq, su>>

\* DELETE /auth/me
DeleteMe(token) ==
    LET v == verify_token(token)
    IN  /\ IF v.status # 200
           THEN /\ users' = users
                /\ last' = [op |-> "delete_me", token |-> token, status |-> v.status]
           ELSE LET d == delete_user(v.claims[1].user_id)
                IN  /\ users' = d.users
                    /\ last' = [op |-> "delete_me", token |-> token,
                                status |-> IF d.ret THEN 200 ELSE 404]
        /\ UNCHANGED <<now, adb, hdb, docs, cache, cacheTime, rq, su>>

\* auth.delete_user called on its own (two DELETE /auth/me that both passed verify_token)
DeleteUserCall(user_id) ==
    LET d == delete_user(user_id)
    IN  /\ users' = d.users
        /\ last' = [op |-> "delete_user", user_id |-> user_id, ret |-> d.ret,
                    was_active |-> IF user_id \in DOMAIN users
                                   THEN Some(users[user_id].active) ELSE None]
        /\ UNCHANGED <<now, adb, hdb, docs, cache, cacheTime, rq, su>>

\* Time passes
Tick(step) ==
    /\ now + step <= MaxTicks * step
    /\ now' = now + step
    /\ last' = [op |-> "tick"]
    /\ UNCHANGED <<adb, users, hdb, docs, cache, cacheTime, rq, su>>

(***************************************************************************)
(* HISTORY STORE (history.py)                                              *)
(*                                                                         *)
(* Firestore document ids are numbers; the store's default order of a      *)
(* query without order_by is ascending document id.                        *)
(***************************************************************************)
COLLECTION_NAME == "query_history"

DocIds == 1 .. MaxDocs
AgentNames == {"billing_agent", "draft_agent", "ghost"}
Messages == {"2+2?"}

\* datetime.isoformat(): a string that sorts as the instant does
Iso(t) == [iso |-> t]
IsoLess(a, b) == a.iso < b.iso

\* doc.to_dict() plus data["id"], the timestamp as an ISO string
Item(id) ==
    [id |-> id, user_id |-> docs[id].user_id, agent_name |-> docs[id].agent_name,
     message |-> docs[id].message, response |-> docs[id].response,
     timestamp |-> Iso(docs[id].timestamp)]

\* Mutant of WhereUser: the query has no filter on user_id
WhereUserUnfiltered(user_id) == DOMAIN docs

\* .where("user_id", "==", user_id)
WhereUser(user_id) == {id \in DOMAIN docs : docs[id].user_id = user_id}

\* ids in ascending order (the store's default order)
RECURSIVE AscendingIds(_)
AscendingIds(S) ==
    IF S = {} THEN <<>>
    ELSE LET m == CHOOSE x \in S : \A y \in S : x <= y
         IN  <<m>> \o AscendingIds(S \ {m})

\* .order_by("timestamp", DESCENDING): newest first, equal instants by descending id
RECURSIVE OrderByTimestampDesc(_)
OrderByTimestampDesc(S) ==
    IF S = {} THEN <<>>
    ELSE LET m == CHOOSE x \in S : \A y \in S :
                    \/ docs[y].timestamp < docs[x].timestamp
                    \/ (docs[y].timestamp = docs[x].timestamp /\ y <= x)
         IN  <<m>> \o OrderByTimestampDesc(S \ {m})

\* seq[:n]
Take(seq, n) == SubSeq(seq, 1, Min(Len(seq), Max(n, 0)))

\* list.sort(key=timestamp, reverse=True): stable, equal keys keep their order
RECURSIVE SortItemsDesc(_)
SortItemsDesc(items) ==
    IF items = <<>> THEN <<>>
    ELSE LET i == CHOOSE k \in 1 .. Len(items) :
                    /\ \A j \in 1 .. Len(items) : ~IsoLess(items[k].timestamp, items[j].timestamp)
                    /\ \A j \in 1 .. (k - 1) : IsoLess(items[j].timestamp, items[k].timestamp)
             rest == [j \in 1 .. (Len(items) - 1) |-> IF j < i THEN items[j] ELSE items[j + 1]]
         IN  <<items[i]>> \o SortItemsDesc(rest)

Items(ids) == [i \in 1 .. Len(ids) |-> Item(ids[i])]

\* get_query_history; `path` is what the store does with the ordered query:
\* "ordered" serves it, "no_index" refuses it for lack of the composite index,
\* "error" fails for another reason
get_query_history(user_id, limit, path) ==
    IF ~hdb THEN <<>>
    ELSE IF user_id = "" THEN <<>>
    ELSE IF path = "ordered"
         THEN Take(Items(Take(OrderByTimestampDesc(WhereUser(user_id)), limit)), limit)
    ELSE IF path = "no_index"
         THEN Take(SortItemsDesc(Items(Take(AscendingIds(WhereUser(user_id)), limit * 2))),
                   limit)
    ELSE <<>>

\* firestore.SERVER_TIMESTAMP: the commit time of the write, which is later than
\* the commit time of every write that had completed before this one began
CommitTime ==
    LET stamps == {docs[id].timestamp : id \in DOMAIN docs}
    IN  IF stamps = {} THEN now
        ELSE Max(now, 1 + (CHOOSE t \in stamps : \A x \in stamps : x <= t))

\* Mutant of save_query: every exchange is written to the same document
save_query_one_doc(user_id, agent_name, message, response, fresh, write_ok) ==
    IF ~hdb THEN [raised |-> TRUE, id |-> None, docs |-> docs]
    ELSE IF ~write_ok THEN [raised |-> TRUE, id |-> None, docs |-> docs]
    ELSE [raised |-> FALSE, id |-> Some(1),
          docs |-> [id \in DOMAIN docs \cup {1} |->
                      IF id = 1
                      THEN [user_id |-> user_id, agent_name |-> agent_name,
                            message |-> message, response |-> response,
                            timestamp |-> CommitTime]
                      ELSE docs[id]]]

\* save_query: [raised, id, docs]; `fresh` is the auto-generated document id,
\* `write_ok` whether doc_ref.set succeeds
save_query(user_id, agent_name, message, response, fresh, write_ok) ==
    IF ~hdb THEN [raised |-> TRUE, id |-> None, docs |-> docs]
    ELSE IF ~write_ok THEN [raised |-> TRUE, id |-> None, docs |-> docs]
    ELSE [raised |-> FALSE, id |-> Some(fresh),
          docs |-> (fresh :> [user_id |-> user_id, agent_name |-> agent_name,
                              message |-> message, response |-> response,
                              timestamp |-> CommitTime]) @@ docs]

\* Mutant of delete_query: the owner of the document is not compared
delete_query_unchecked(query_id, user_id) ==
    IF ~hdb THEN [ret |-> FALSE, docs |-> docs]
    ELSE IF query_id \notin DOMAIN docs THEN [ret |-> FALSE, docs |-> docs]
    ELSE [ret |-> TRUE, docs |-> [id \in DOMAIN docs \ {query_id} |-> docs[id]]]

\* delete_query: [ret, docs]
delete_query(query_id, user_id) ==
    IF ~hdb THEN [ret |-> FALSE, docs |-> docs]
    ELSE IF query_id \notin DOMAIN docs THEN [ret |-> FALSE, docs |-> docs]
    ELSE IF docs[query_id].user_id # user_id THEN [ret |-> FALSE, docs |-> docs]
    ELSE [ret |-> TRUE, docs |-> [id \in DOMAIN docs \ {query_id} |-> docs[id]]]

\* Mutant of delete_all_history: the query has no filter on user_id
delete_all_history_unfiltered(user_id) ==
    IF ~hdb THEN [ret |-> 0, docs |-> docs]
    ELSE IF user_id = "" THEN [ret |-> 0, docs |-> docs]
    ELSE [ret |-> Cardinality(WhereUser(user_id)), docs |-> <<>>]

\* delete_all_history: [ret, docs]
delete_all_history(user_id) ==
    IF ~hdb THEN [ret |-> 0, docs |-> docs]
    ELSE IF user_id = "" THEN [ret |-> 0, docs |-> docs]
    ELSE [ret |-> Cardinality(WhereUser(user_id)),
          docs |-> [id \in DOMAIN docs \ WhereUser(user_id) |-> docs[id]]]

\* Document ids the store has not handed out
FreeIds == DocIds \ DOMAIN docs

SaveQuery(user_id, agent_name, message, response) ==
    /\ Cardinality(DOMAIN docs) < MaxDocs
    /\ CommitTime <= MaxTicks + MaxDocs
    /\ \E write_ok \in BOOLEAN : \E fresh \in FreeIds :
          LET r == save_query(user_id, agent_name, message, response, fresh, write_ok)
          IN  /\ docs' = r.docs
              /\ last' = [op |-> "save_query", user_id |-> user_id, agent_name |-> agent_name,
                          message |-> message, response |-> response,
                          raised |-> r.raised, id |-> r.id]
    /\ UNCHANGED <<now, adb, users, hdb, cache, cacheTime, rq, su>>

GetQueryHistory(user_id, limit) ==
    /\ \E path \in {"ordered", "no_index", "error"} :
          last' = [op |-> "get_query_history", user_id |-> user_id, limit |-> limit,
                   path |-> path, ret |-> get_query_history(user_id, limit, path)]
    /\ UNCHANGED <<now, adb, users, hdb, docs, cache, cacheTime, rq, su>>

DeleteQuery(query_id, user_id) ==
    LET r == delete_query(query_id, user_id)
    IN  /\ docs' = r.docs
        /\ last' = [op |-> "delete_query", query_id |-> query_id, user_id |-> user_id,
                    ret |-> r.ret]
        /\ UNCHANGED <<now, adb, users, hdb, cache, cacheTime, rq, su>>

DeleteAllHistory(user_id) ==
    LET r == delete_all_history(user_id)
    IN  /\ docs' = r.docs
        /\ last' = [op |-> "delete_all_history", user_id |-> user_id, ret |-> r.ret]
        /\ UNCHANGED <<now, adb, users, hdb, cache, cacheTime, rq, su>>


(***************************************************************************)
(* HISTORY ENDPOINTS (main.py)                                             *)
(*                                                                         *)
(* `called` lists the history-store functions an endpoint called, with     *)
(* their arguments.                                                        *)
(***************************************************************************)
HISTORY_LIMIT_MAX == 100

\* Mutant of ClampLimit: the requested limit is passed on as it came
ClampLimitNone(limit) == limit

\* limit = min(max(1, limit), 100)
ClampLimit(limit) == Min(Max(1, limit), HISTORY_LIMIT_MAX)

\* Mutant of OwnsRequest: the user_id parameter is not compared with the token
OwnsRequestAlways(user_id, claims) == TRUE

\* "if user_id != user_token.get("user_id")" negated
OwnsRequest(user_id, claims) == user_id = claims.user_id

\* re.sub(r'[^a-zA-Z0-9_-]', '', user_id): the ids of the store consist of the
\* characters kept, any other text of the model is the empty string
SanitizeUserId(user_id) == IF user_id \in UserIds THEN user_id ELSE ""

\* What an endpoint does before it reaches the store: 401, 403, 400 or 200 and the
\* sanitized user id
Admit(token, user_id) ==
    LET v == verify_token(token)
    IN  IF v.status # 200 THEN [status |-> 401, user_id |-> ""]
        ELSE IF ~OwnsRequest(user_id, v.claims[1]) THEN [status |-> 403, user_id |-> ""]
        ELSE IF user_id = "" \/ SanitizeUserId(user_id) = ""
             THEN [status |-> 400, user_id |-> ""]
        ELSE [status |-> 200, user_id |-> SanitizeUserId(user_id)]

\* validated_item: the six fields of HistoryItem
ValidatedItem(item) ==
    [id |-> item.id, user_id |-> item.user_id, agent_name |-> item.agent_name,
     message |-> item.message, response |-> item.response, timestamp |-> item.timestamp]

\* GET /history
GetHistory(token, user_id, limit) ==
    /\ LET a == Admit(token, user_id)
       IN  IF a.status # 200
           THEN last' = [op |-> "get_history", token |-> token, user_id |-> user_id,
                         limit |-> limit, status |-> a.status, called |-> <<>>, ret |-> <<>>]
           ELSE \E path \in {"ordered", "no_index", "error"} :
                   LET history == get_query_history(a.user_id, ClampLimit(limit), path)
                   IN  last' = [op |-> "get_history", token |-> token, user_id |-> user_id,
                                limit |-> limit, status |-> 200,
                                called |-> <<[fn |-> "get_query_history",
                                              user_id |-> a.user_id,
                                              limit |-> ClampLimit(limit)]>>,
                                ret |-> [i \in 1 .. Len(history) |-> ValidatedItem(history[i])]]
    /\ UNCHANGED <<now, adb, users, hdb, docs, cache, cacheTime, rq, su>>

\* DELETE /history/{query_id}
DeleteHistoryItem(token, query_id, user_id) ==
    /\ LET a == Admit(token, user_id)
       IN  IF a.status # 200
           THEN /\ docs' = docs
                /\ last' = [op |-> "delete_history_item", token |-> token,
                            user_id |-> user_id, query_id |-> query_id,
                            status |-> a.status, called |-> <<>>]
           ELSE LET r == delete_query(query_id, a.user_id)
                IN  /\ docs' = r.docs
                    /\ last' = [op |-> "delete_history_item", token |-> token,
                                user_id |-> user_id, query_id |-> query_id,
                                status |-> IF r.ret THEN 200 ELSE 404,
                                called |-> <<[fn |-> "delete_query", query_id |-> query_id,
                                              user_id |-> a.user_id]>>]
    /\ UNCHANGED <<now, adb, users, hdb, cache, cacheTime, rq, su>>

\* DELETE /history
DeleteAllHistoryEndpoint(token, user_id) ==
    /\ LET a == Admit(token, user_id)
       IN  IF a.status # 200
           THEN /\ docs' = docs
                /\ last' = [op |-> "delete_all_history_endpoint", token |-> token,
                            user_id |-> user_id, status |-> a.status, called |-> <<>>,
                            deleted_count |-> 0]
           ELSE LET r == delete_all_history(a.user_id)
                IN  /\ docs' = r.docs
                    /\ last' = [op |-> "delete_all_history_endpoint", token |-> token,
                                user_id |-> user_id, status |-> 200,
                                called |-> <<[fn |-> "delete_all_history",
                                              user_id |-> a.user_id]>>,
                                deleted_count |-> r.ret]
    /\ UNCHANGED <<now, adb, users, hdb, cache, cacheTime, rq, su>>


(***************************************************************************)
(* AGENT REGISTRY (main.py)                                                *)
(*                                                                         *)
(* An engine's resource name is the sequence of its "/"-separated          *)
(* segments; an engine the directory lists without a name has <<>>.        *)
(***************************************************************************)
EngBilling ==
    [displayName |-> "Billing Agent", description |-> "Billing questions",
     name |-> <<"projects", "p", "locations", "l", "reasoningEngines", "e1">>]
EngDraft ==
    [displayName |-> "Draft Agent", description |-> "", name |-> <<>>]

\* What one call of the directory service can give
ScanOutcomes ==
    { [kind |-> "response", status |-> HTTP_OK, engines |-> <<>>],
      [kind |-> "response", status |-> HTTP_OK, engines |-> <<EngBilling>>],
      [kind |-> "response", status |-> HTTP_OK, engines |-> <<EngBilling, EngDraft>>],
      [kind |-> "response", status |-> 403, engines |-> <<>>],
      [kind |-> "exception", status |-> 0, engines |-> <<>>] }

\* name.split('/')[-1] if '/' in name else name
EngineId(name) == IF name = <<>> THEN "" ELSE name[Len(name)]

\* display_name.lower().replace(' ', '_').replace('-', '_'), alphanumerics and '_' kept
SanitizedKey(display_name) ==
    CASE display_name = "Billing Agent" -> "billing_agent"
      [] display_name = "Draft Agent" -> "draft_agent"
      [] OTHER -> ""

AgentKey(engine) ==
    LET engine_id == EngineId(engine.name)
        key == IF engine.displayName # "" THEN SanitizedKey(engine.displayName)
               ELSE "agent_" \o engine_id
    IN  IF key = "" THEN "agent_" \o engine_id ELSE key

AgentConfig(engine) ==
    LET engine_id == EngineId(engine.name)
    IN  [name |-> AgentKey(engine),
         display_name |-> IF engine.displayName # "" THEN engine.displayName
                          ELSE "Agent " \o engine_id,
         description |-> IF engine.description # "" THEN engine.description
                         ELSE "Vertex AI Agent Engine agent",
         reasoning_engine_id |-> engine_id]

\* configs[key] = {...} for each engine in turn
RECURSIVE ConfigsOf(_)
ConfigsOf(engines) ==
    IF engines = <<>> THEN <<>>
    ELSE LET e == engines[Len(engines)]
         IN  (AgentKey(e) :> AgentConfig(e)) @@ ConfigsOf(SubSeq(engines, 1, Len(engines) - 1))

\* scan_agent_engine_reasoning_engines: the configs, empty on any failure
scan_agent_engine_reasoning_engines(outcome) ==
    IF outcome.kind = "exception" THEN <<>>
    ELSE IF outcome.status = HTTP_OK THEN ConfigsOf(outcome.engines)
    ELSE <<>>

\* The scan got its answer from the directory service
ScanSucceeded(outcome) == outcome.kind = "response" /\ outcome.status = HTTP_OK

\* Mutant of load_agent_configs: a filled cache never expires
load_agent_configs_no_ttl(force_refresh, outcome) ==
    IF ~force_refresh /\ cache # None
    THEN [ret |-> cache[1], cache |-> cache, cacheTime |-> cacheTime, scanned |-> FALSE,
          failed |-> FALSE]
    ELSE LET scanned_configs == scan_agent_engine_reasoning_engines(outcome)
         IN  [ret |-> scanned_configs, cache |-> Some(scanned_configs),
              cacheTime |-> now, scanned |-> TRUE, failed |-> ~ScanSucceeded(outcome)]

\* load_agent_configs: [ret, cache, cacheTime, scanned, failed]
load_agent_configs(force_refresh, outcome) ==
    IF ~force_refresh /\ cache # None /\ now - cacheTime < AGENT_CONFIGS_CACHE_TTL
    THEN [ret |-> cache[1], cache |-> cache, cacheTime |-> cacheTime, scanned |-> FALSE,
          failed |-> FALSE]
    ELSE LET scanned_configs == scan_agent_engine_reasoning_engines(outcome)
         IN  [ret |-> scanned_configs, cache |-> Some(scanned_configs),
              cacheTime |-> now, scanned |-> TRUE, failed |-> ~ScanSucceeded(outcome)]

\* agents.sort(key=display_name) over the display names of the model
DisplayOrder == <<"Billing Agent", "Draft Agent">>
AgentInfo(config) ==
    [name |-> config.name, display_name |-> config.display_name,
     description |-> config.description,
     reasoning_engine_id |-> config.reasoning_engine_id,
     is_available |-> config.reasoning_engine_id # ""]
SortedAgents(configs) ==
    LET listed == SelectSeq(DisplayOrder,
                     LAMBDA d : \E k \in DOMAIN configs : configs[k].display_name = d)
    IN  [i \in 1 .. Len(listed) |->
            AgentInfo(configs[CHOOSE k \in DOMAIN configs : configs[k].display_name = listed[i]])]

\* GET /agents
ListAgents(force_refresh) ==
    /\ \E outcome \in ScanOutcomes :
          LET l == load_agent_configs(force_refresh, outcome)
          IN  /\ cache' = l.cache
              /\ cacheTime' = l.cacheTime
              /\ last' = [op |-> "list_agents", force_refresh |-> force_refresh,
                          scanned |-> l.scanned, failed |-> l.failed,
                          ret |-> SortedAgents(l.ret)]
    /\ UNCHANGED <<now, adb, users, hdb, docs, rq, su>>


\* Line 197: AGENT_CONFIGS = load_agent_configs() when the module is imported
LoadAtImport ==
    /\ cache = None
    /\ \E outcome \in ScanOutcomes :
          LET l == load_agent_configs(FALSE, outcome)
          IN  /\ cache' = l.cache
              /\ cacheTime' = l.cacheTime
              /\ last' = [op |-> "import", force_refresh |-> FALSE,
                          scanned |-> l.scanned, failed |-> l.failed,
                          ret |-> SortedAgents(l.ret)]
    /\ UNCHANGED <<now, adb, users, hdb, docs, rq, su>>


(***************************************************************************)
(* STREAMING RELAY (main.py, query_agent_stream_with_save)                 *)
(*                                                                         *)
(* A JSON value read from a frame is [type, s]: a string, a non-string     *)
(* truthy value (a number) or null.  A part is a dict (with or without a   *)
(* "text" key) or something else.  A line of the response is blank, not    *)
(* JSON, a JSON value that is no object, or an object with its "content",  *)
(* "candidates" and "text" members.                                        *)
(***************************************************************************)
JStr(s) == [type |-> "str", s |-> s]
JNum == [type |-> "num", s |-> ""]
JNull == [type |-> "null", s |-> ""]

TextPart(s) == [isdict |-> TRUE, has_text |-> TRUE, text |-> JStr(s)]
NumTextPart == [isdict |-> TRUE, has_text |-> TRUE, text |-> JNum]
CallPart == [isdict |-> TRUE, has_text |-> FALSE, text |-> JNull]
BarePart == [isdict |-> FALSE, has_text |-> FALSE, text |-> JNull]

\* {"parts": [...]}; a missing "content" is the default {}
Content(parts) == [isdict |-> TRUE, parts |-> parts]
NoContent == Content(<<>>)
Candidate(parts) == [isdict |-> TRUE, content |-> Content(parts)]

Obj(content, candidates, has_text, text) ==
    [line |-> "json", isobj |-> TRUE, content |-> content, candidates |-> candidates,
     has_text |-> has_text, text |-> text]

LineBlank == [line |-> "blank", isobj |-> FALSE, content |-> NoContent, candidates |-> <<>>,
              has_text |-> FALSE, text |-> JNull]
LineNoise == [LineBlank EXCEPT !.line = "text"]
LineArray == [LineBlank EXCEPT !.line = "json"]
LineHi == Obj(Content(<<TextPart("Hi")>>), <<>>, FALSE, JNull)
LineThere == Obj(Content(<<TextPart(" there")>>), <<>>, FALSE, JNull)
LineTwoParts == Obj(Content(<<TextPart("a"), TextPart("b")>>), <<>>, FALSE, JNull)
LineCall == Obj(Content(<<CallPart, BarePart, TextPart("")>>), <<>>, FALSE, JNull)
LineBadText == Obj(Content(<<TextPart("x"), NumTextPart, TextPart("y")>>), <<>>, FALSE, JNull)
LineCandidate == Obj(NoContent, <<Candidate(<<TextPart("c")>>)>>, FALSE, JNull)
LineFlat == Obj(NoContent, <<>>, TRUE, JStr("t"))
LineBoth == Obj(Content(<<TextPart("p")>>), <<>>, TRUE, JStr("q"))

\* The lines an upstream response is made of
FrameSet ==
    {LineBlank, LineNoise, LineArray, LineHi, LineThere, LineTwoParts, LineCall,
     LineBadText, LineCandidate, LineFlat, LineBoth}

\* part.get("text")
PartText(part) == IF part.has_text THEN part.text ELSE JNull
\* "if text:"
Truthy(v) == (v.type = "str" /\ v.s # "") \/ v.type = "num"

\* An extraction is [texts, raised]: the increments yielded, in order, and whether
\* the code raised (response_text += text on a non-string) and left the frame.
NoTexts == [texts |-> <<>>, raised |-> FALSE]
Then(a, b) == IF a.raised THEN a ELSE [texts |-> a.texts \o b.texts, raised |-> b.raised]

\* for part in parts: if isinstance(part, dict): text = part.get("text"); if text: ...
RECURSIVE FromParts(_)
FromParts(parts) ==
    IF parts = <<>> THEN NoTexts
    ELSE LET part == Head(parts)
             text == PartText(part)
             one == IF part.isdict /\ Truthy(text)
                    THEN IF text.type = "str"
                         THEN [texts |-> <<text.s>>, raised |-> FALSE]
                         ELSE [texts |-> <<>>, raised |-> TRUE]
                    ELSE NoTexts
         IN  Then(one, FromParts(Tail(parts)))

\* Format 1: content.parts[].text
FromContent(content) == IF content.isdict THEN FromParts(content.parts) ELSE NoTexts

\* Format 2: candidates[].content.parts[].text
RECURSIVE FromCandidates(_)
FromCandidates(candidates) ==
    IF candidates = <<>> THEN NoTexts
    ELSE LET candidate == Head(candidates)
             one == IF ~candidate.isdict THEN [texts |-> <<>>, raised |-> TRUE]
                    ELSE FromContent(candidate.content)
         IN  Then(one, FromCandidates(Tail(candidates)))

\* Format 3: a direct "text" member
FromFlat(data) ==
    IF data.has_text /\ Truthy(data.text)
    THEN IF data.text.type = "str" THEN [texts |-> <<data.text.s>>, raised |-> FALSE]
         ELSE [texts |-> <<>>, raised |-> TRUE]
    ELSE NoTexts

\* The body of the "for line in response.iter_lines" loop for one line: what it yields
ExtractLine(frame) ==
    IF frame.line # "json" THEN NoTexts
    ELSE IF ~frame.isobj THEN [texts |-> <<>>, raised |-> TRUE]
    ELSE Then(FromContent(frame.content),
              Then(FromCandidates(frame.candidates), FromFlat(frame)))

\* Mutant of Accumulate: each increment is put in front of the text so far
RECURSIVE AccumulateInFront(_, _)
AccumulateInFront(response_text, texts) ==
    IF texts = <<>> THEN response_text
    ELSE AccumulateInFront(Head(texts) \o response_text, Tail(texts))

\* response_text += text, for each text in turn
RECURSIVE Accumulate(_, _)
Accumulate(response_text, texts) ==
    IF texts = <<>> THEN response_text
    ELSE Accumulate(response_text \o Head(texts), Tail(texts))

\* Mutant of SaveErrorEvent: the storage failure is reported as a failed request
SaveErrorAsError(save_error) == [error |-> save_error, done |-> TRUE]

\* The events of the stream, one JSON object each
TextEvent(text) == [text |-> text]
ErrorEvent(error) == [error |-> error, done |-> TRUE]
SavedEvent(query_id) == [query_id |-> query_id, done |-> TRUE]
SaveErrorEvent(save_error) == [done |-> TRUE, save_error |-> save_error]
EmptyEvent == [done |-> TRUE, warning |-> "Empty response from agent"]
TextEvents(texts) == [i \in 1 .. Len(texts) |-> TextEvent(texts[i])]

\* Mutant of ErrorText: the upstream body is passed on whole
ErrorTextWhole(body) == body

\* response.text[:500]
ErrorText(body) == SubSeq(body, 1, Min(Len(body), ERROR_TEXT_LIMIT))

Body(n) == [i \in 1 .. n |-> i]
Bodies == {Body(0), Body(ERROR_TEXT_LIMIT), Body(ERROR_TEXT_LIMIT + 1)}

\* What requests.post can do
DispatchOutcomes ==
    { [kind |-> k, status |-> 0, body |-> <<>>] :
        k \in {"timeout", "request_exception", "exception"} }
    \cup { [kind |-> "response", status |-> HTTP_OK, body |-> <<>>] }
    \cup { [kind |-> "response", status |-> st, body |-> b] : st \in {403, 500}, b \in Bodies }

\* What response.text gives once iter_lines produced nothing: it raises, or the body
\* is empty, one JSON object, or text that is not JSON
RawOutcomes ==
    { [kind |-> "raises", raw |-> "", data |-> LineBlank],
      [kind |-> "text", raw |-> "", data |-> LineBlank],
      [kind |-> "text", raw |-> "plain answer", data |-> LineNoise],
      [kind |-> "text", raw |-> "{json}", data |-> LineHi],
      [kind |-> "text", raw |-> "[json]", data |-> LineArray] }

\* Lines 524-554: the raw-response fallback; [texts, response_text]
RawFallback(response_text, raw) ==
    IF raw.kind = "raises" THEN [texts |-> <<>>, response_text |-> response_text]
    ELSE IF raw.data.line = "json"
         THEN IF ~raw.data.isobj THEN [texts |-> <<>>, response_text |-> response_text]
              ELSE LET x == FromContent(raw.data.content)
                   IN  [texts |-> x.texts, response_text |-> Accumulate(response_text, x.texts)]
    ELSE IF raw.raw # "" THEN [texts |-> <<raw.raw>>, response_text |-> raw.raw]
    ELSE [texts |-> <<>>, response_text |-> response_text]


\* A request that has not arrived yet.  token, body, seen, posts, dispatch, lines,
\* ended and saves record what the request was given and what it did; buffered says
\* that it came in through POST /query, whose JSON response is reply; raw is what
\* response.text did when the fallback read it; elapsed is the time since the
\* request was posted upstream, in seconds.
IdleRq ==
    [pc |-> "idle", http |-> 0, token |-> None, body |-> None, seen |-> None,
     user_id |-> "", agent_name |-> "", message |-> "", engine |-> "",
     posts |-> <<>>, dispatch |-> None, lines |-> <<>>, ended |-> "",
     line_count |-> 0, chunk_count |-> 0, response_text |-> "",
     out |-> <<>>, saves |-> <<>>, buffered |-> FALSE, reply |-> None, raw |-> None,
     elapsed |-> 0]

\* The JSON body of POST /query/stream; QueryRequest has no user_id field, so a
\* user_id the client sends along is dropped by the request model
RequestBodies == [message : Messages, agent_name : AgentNames, user_id : UserIds]

\* Mutant of CallerId: the user id is read from the request body
CallerIdFromBody(claims, body) == body.user_id

\* authenticated_user_id = user_token.get("user_id")
CallerId(claims, body) == claims.user_id

\* POST /query/stream: the dependency, then the StreamingResponse over the generator
QueryStream(s, token, body) ==
    /\ rq[s].pc = "idle"
    /\ LET v == verify_token(token)
       IN  rq' = [rq EXCEPT ![s] =
                IF v.status # 200 \/ CallerId(v.claims[1], body) = ""
                THEN [@ EXCEPT !.pc = "rejected", !.http = 401, !.token = Some(token)]
                ELSE [@ EXCEPT !.pc = "resolve", !.http = 200, !.token = Some(token),
                               !.body = Some(body),
                               !.user_id = CallerId(v.claims[1], body),
                               !.agent_name = body.agent_name,
                               !.message = body.message]]
    /\ last' = [op |-> "query_stream"]
    /\ UNCHANGED <<now, adb, users, hdb, docs, cache, cacheTime, su>>

\* Mutant of EngineMissing: an empty endpoint identifier is not noticed
EngineNeverMissing(reasoning_engine_id) == FALSE

\* "if not reasoning_engine_id:"
EngineMissing(reasoning_engine_id) == reasoning_engine_id = ""

\* Lines 368-386: the request after the registry lookup and get_credentials
Resolved(r, configs, creds_ok) ==
    IF r.agent_name \notin DOMAIN configs
    THEN [r EXCEPT !.pc = "done", !.seen = Some(configs),
                   !.out = <<ErrorEvent([msg |-> "not found", agent |-> r.agent_name])>>]
    ELSE IF EngineMissing(configs[r.agent_name].reasoning_engine_id)
    THEN [r EXCEPT !.pc = "done", !.seen = Some(configs),
                   !.out = <<ErrorEvent([msg |-> "not configured", agent |-> r.agent_name])>>]
    ELSE IF ~creds_ok
    THEN [r EXCEPT !.pc = "done", !.seen = Some(configs),
                   !.out = <<ErrorEvent([msg |-> "Failed to get credentials"])>>]
    ELSE [r EXCEPT !.pc = "dispatch", !.seen = Some(configs),
                   !.engine = configs[r.agent_name].reasoning_engine_id]

Resolve(s) ==
    /\ rq[s].pc = "resolve"
    /\ \E outcome \in ScanOutcomes, creds_ok \in BOOLEAN :
          LET l == load_agent_configs(FALSE, outcome)
          IN  /\ cache' = l.cache
              /\ cacheTime' = l.cacheTime
              /\ rq' = [rq EXCEPT ![s] = Resolved(@, l.ret, creds_ok)]
    /\ last' = [op |-> "relay"]
    /\ UNCHANGED <<now, adb, users, hdb, docs, su>>

\* Lines 435-441 and 588-600: the events that end a request at dispatch
DispatchError(outcome) ==
    IF outcome.kind = "timeout" THEN [msg |-> "Request timeout (180s exceeded)"]
    ELSE IF outcome.kind = "request_exception" THEN [msg |-> "Request failed"]
    ELSE IF outcome.kind = "exception" THEN [msg |-> "Query failed"]
    ELSE [msg |-> "Agent query failed", status |-> outcome.status,
          error_text |-> ErrorText(outcome.body)]

\* Lines 394-441: requests.post with the payload, then the status check
Dispatched(r, outcome) ==
    LET sent == [r EXCEPT !.posts = Append(@, [engine |-> r.engine,
                                                 input |-> [message |-> r.message,
                                                            user_id |-> r.user_id]]),
                          !.dispatch = Some(outcome)]
    IN  IF outcome.kind = "response" /\ outcome.status = HTTP_OK
        THEN [sent EXCEPT !.pc = "ingest"]
        ELSE [sent EXCEPT !.pc = "done", !.out = <<ErrorEvent(DispatchError(outcome))>>]

Dispatch(s) ==
    /\ rq[s].pc = "dispatch"
    /\ \E outcome \in DispatchOutcomes : rq' = [rq EXCEPT ![s] = Dispatched(@, outcome)]
    /\ last' = [op |-> "relay"]
    /\ UNCHANGED <<now, adb, users, hdb, docs, cache, cacheTime, su>>

\* Lines 454-519: one turn of the iter_lines loop
LineRead(r, frame) ==
    LET x == ExtractLine(frame)
    IN  [r EXCEPT !.lines = Append(@, frame),
                  !.chunk_count = @ + 1,
                  !.line_count = IF frame.line = "blank" THEN @ ELSE @ + 1,
                  !.response_text = Accumulate(@, x.texts),
                  !.out = @ \o TextEvents(x.texts)]

IngestLine(s) ==
    /\ rq[s].pc = "ingest"
    /\ Len(rq[s].lines) < MaxFrames
    /\ \E frame \in FrameSet : rq' = [rq EXCEPT ![s] = LineRead(@, frame)]
    /\ last' = [op |-> "relay"]
    /\ UNCHANGED <<now, adb, users, hdb, docs, cache, cacheTime, su>>

\* Mutant of StreamFailed: the error event is sent whether or not text was collected
StreamFailedAlwaysError(r) ==
    IF r.response_text = ""
    THEN [r EXCEPT !.pc = "done", !.ended = "error",
                   !.out = Append(@, ErrorEvent([msg |-> "Stream error"]))]
    ELSE [r EXCEPT !.pc = "finalize", !.ended = "error",
                   !.out = Append(@, ErrorEvent([msg |-> "Stream error"]))]

\* Lines 559-566: iter_lines raised (connection lost, read timeout)
StreamFailed(r) ==
    IF r.response_text = ""
    THEN [r EXCEPT !.pc = "done", !.ended = "error",
                   !.out = Append(@, ErrorEvent([msg |-> "Stream error"]))]
    ELSE [r EXCEPT !.pc = "finalize", !.ended = "error"]

IngestError(s) ==
    /\ rq[s].pc = "ingest"
    /\ rq' = [rq EXCEPT ![s] = StreamFailed(@)]
    /\ last' = [op |-> "relay"]
    /\ UNCHANGED <<now, adb, users, hdb, docs, cache, cacheTime, su>>

\* Lines 521-558: the loop ended; the raw fallback when it saw no chunk at all
StreamEnded(r, raw) ==
    IF r.line_count = 0 /\ r.chunk_count = 0
    THEN LET f == RawFallback(r.response_text, raw)
         IN  [r EXCEPT !.pc = "finalize", !.ended = "eof", !.raw = Some(raw),
                       !.response_text = f.response_text,
                       !.out = @ \o TextEvents(f.texts)]
    ELSE [r EXCEPT !.pc = "finalize", !.ended = "eof"]

IngestEnd(s) ==
    /\ rq[s].pc = "ingest"
    /\ \E raw \in RawOutcomes : rq' = [rq EXCEPT ![s] = StreamEnded(@, raw)]
    /\ last' = [op |-> "relay"]
    /\ UNCHANGED <<now, adb, users, hdb, docs, cache, cacheTime, su>>

\* Mutant of ShouldSave: the exchange is saved whatever the text
ShouldSaveAlways(response_text) == TRUE

\* "if response_text:"
ShouldSave(response_text) == response_text # ""

\* Lines 568-586: the request after save_query returned `saved`, or without a call
Finalized(r, saved) ==
    IF ShouldSave(r.response_text)
    THEN [r EXCEPT !.pc = "done",
                   !.saves = Append(@, [user_id |-> r.user_id, agent_name |-> r.agent_name,
                                        message |-> r.message, response |-> r.response_text,
                                        at |-> Len(r.out), raised |-> saved.raised,
                                        id |-> saved.id]),
                   !.out = Append(@, IF saved.raised
                                     THEN SaveErrorEvent(IF hdb THEN "write failed"
                                                         ELSE "Firestore client not initialized")
                                     ELSE SavedEvent(saved.id[1]))]
    ELSE [r EXCEPT !.pc = "done", !.out = Append(@, EmptyEvent)]

Finalize(s) ==
    /\ rq[s].pc = "finalize"
    /\ \E write_ok \in BOOLEAN : \E fresh \in (IF FreeIds = {} THEN {0} ELSE FreeIds) :
          LET r == rq[s]
              saved == save_query(r.user_id, r.agent_name, r.message, r.response_text,
                                  fresh, write_ok /\ FreeIds # {})
          IN  /\ rq' = [rq EXCEPT ![s] = Finalized(@, saved)]
              /\ docs' = IF ShouldSave(r.response_text) THEN saved.docs ELSE docs
    /\ last' = [op |-> "relay"]
    /\ UNCHANGED <<now, adb, users, hdb, cache, cacheTime, su>>

RelayStep(s) ==
    Resolve(s) \/ Dispatch(s) \/ IngestLine(s) \/ IngestError(s) \/ IngestEnd(s) \/ Finalize(s)

(***************************************************************************)
(* POST /query (main.py, query): the same generator, read to its done      *)
(* event by the handler, which answers with one JSON object                *)
(***************************************************************************)
\* Mutant of Buffered: the query_id of the events is not read
RECURSIVE BufferedTextOnly(_, _)
BufferedTextOnly(acc, chunks) ==
    IF chunks = <<>> THEN acc
    ELSE LET data == Head(chunks)
             read == [acc EXCEPT !.response = IF "text" \in DOMAIN data
                                              THEN @ \o data.text ELSE @]
         IN  IF "done" \in DOMAIN data /\ data.done THEN read
             ELSE BufferedTextOnly(read, Tail(chunks))

\* Lines 757-770: for chunk in generator: response_text += data["text"];
\* query_id = data["query_id"]; if data.get("done"): break
RECURSIVE Buffered(_, _)
Buffered(acc, chunks) ==
    IF chunks = <<>> THEN acc
    ELSE LET data == Head(chunks)
             read == [response |-> IF "text" \in DOMAIN data
                                   THEN acc.response \o data.text ELSE acc.response,
                      query_id |-> IF "query_id" \in DOMAIN data
                                   THEN Some(data.query_id) ELSE acc.query_id]
         IN  IF "done" \in DOMAIN data /\ data.done THEN read
             ELSE Buffered(read, Tail(chunks))

\* Lines 778-783: QueryResponse(response, agent_name, user_id, query_id)
QueryResponse(r) ==
    LET b == Buffered([response |-> "", query_id |-> None], r.out)
    IN  [response |-> b.response, agent_name |-> r.agent_name, user_id |-> r.user_id,
         query_id |-> b.query_id]

\* POST /query: the dependency, then the handler starts reading the generator
Query(s, token, body) ==
    /\ rq[s].pc = "idle"
    /\ LET v == verify_token(token)
       IN  rq' = [rq EXCEPT ![s] =
                IF v.status # 200 \/ CallerId(v.claims[1], body) = ""
                THEN [@ EXCEPT !.pc = "rejected", !.http = 401, !.token = Some(token),
                               !.buffered = TRUE]
                ELSE [@ EXCEPT !.pc = "resolve", !.http = 200, !.token = Some(token),
                               !.body = Some(body), !.buffered = TRUE,
                               !.user_id = CallerId(v.claims[1], body),
                               !.agent_name = body.agent_name,
                               !.message = body.message]]
    /\ last' = [op |-> "query"]
    /\ UNCHANGED <<now, adb, users, hdb, docs, cache, cacheTime, su>>

\* POST /query: the generator has yielded its done event; the handler returns
QueryReturn(s) ==
    /\ rq[s].pc = "done"
    /\ rq[s].buffered
    /\ rq[s].reply = None
    /\ rq' = [rq EXCEPT ![s].reply = Some(QueryResponse(rq[s]))]
    /\ last' = [op |-> "query_return"]
    /\ UNCHANGED <<now, adb, users, hdb, docs, cache, cacheTime, su>>

(***************************************************************************)
(* The relay against the clock.  requests.post(..., timeout=180) is the    *)
(* only timeout of the request: the library applies it to the connection   *)
(* and to each wait for bytes of the response, and raises from iter_lines  *)
(* when a wait exceeds it.                                                 *)
(***************************************************************************)
REQUEST_TIMEOUT == 180

\* The waits for the next line that stay under the timeout
LineGaps == {REQUEST_TIMEOUT \div 3, 2 * (REQUEST_TIMEOUT \div 3)}

\* Lines 454-519: the next line arrives `gap` seconds after the previous one
IngestLineAfter(s, gap) ==
    /\ rq[s].pc = "ingest"
    /\ Len(rq[s].lines) < MaxFrames
    /\ gap < REQUEST_TIMEOUT
    /\ \E frame \in FrameSet :
          rq' = [rq EXCEPT ![s] = [LineRead(@, frame) EXCEPT !.elapsed = @ + gap]]
    /\ last' = [op |-> "relay"]
    /\ UNCHANGED <<now, adb, users, hdb, docs, cache, cacheTime, su>>

\* Lines 454-519: one turn of the iter_lines loop of request s, whose upstream
\* sends `frame`
IngestFrame(s, frame) ==
    /\ rq[s].pc = "ingest"
    /\ Len(rq[s].lines) < MaxFrames
    /\ rq' = [rq EXCEPT ![s] = LineRead(@, frame)]
    /\ last' = [op |-> "relay"]
    /\ UNCHANGED <<now, adb, users, hdb, docs, cache, cacheTime, su>>

\* Lines 559-566: no byte for 180 seconds; iter_lines raises and the handler of
\* the ingestion exceptions takes over
ReadTimeout(s) ==
    /\ rq[s].pc = "ingest"
    /\ rq' = [rq EXCEPT ![s] = [StreamFailed(@) EXCEPT !.ended = "read_timeout",
                                                       !.elapsed = @ + REQUEST_TIMEOUT]]
    /\ last' = [op |-> "relay"]
    /\ UNCHANGED <<now, adb, users, hdb, docs, cache, cacheTime, su>>

(***************************************************************************)
(* SPECIFICATIONS                                                          *)
(***************************************************************************)
\* A user document as create_user wrote it at time 0
UserDoc(id, email, active) ==
    [user_id |-> id, email |-> email, password_hash |-> BcryptHash(PwSecret),
     created_at |-> 0, updated_at |-> 0,
     deleted_at |-> IF active THEN None ELSE Some(0), active |-> active]

\* The relay: u1 is an active user, u2 a deactivated one; a request per slot.  The
\* requests run within one lifetime of the registry cache, which GET /agents with
\* force_refresh replaces.
TokenFor(u) == [sub |-> Some(u), email |-> EmAlice, key |-> SECRET_KEY, exp |-> TOKEN_LIFETIME]
RelayTokens == {TokenFor("u1"), TokenFor("u2"), [TokenFor("u1") EXCEPT !.key = "forged"]}

InitRelay ==
    /\ now = 0
    /\ adb = TRUE
    /\ users = ("u1" :> UserDoc("u1", EmAlice, TRUE)) @@ ("u2" :> UserDoc("u2", EmBob, FALSE))
    /\ hdb \in BOOLEAN
    /\ docs = <<>>
    /\ \E outcome \in ScanOutcomes :
          cache = Some(scan_agent_engine_reasoning_engines(outcome))
    /\ cacheTime = 0
    /\ rq = [s \in {1} |-> IdleRq]
    /\ su = <<>>
    /\ last = [op |-> "init"]

\* GET /agents is interleaved before a request has read the registry and after
\* its stream has ended: the relay reads the cache in Resolve and nowhere else.
NextRelay ==
    \/ \E s \in DOMAIN rq, token \in RelayTokens, body \in RequestBodies :
          QueryStream(s, token, body)
    \/ \E s \in DOMAIN rq : Resolve(s)
    \/ \E s \in DOMAIN rq : Dispatch(s)
    \/ \E s \in DOMAIN rq : IngestLine(s)
    \/ \E s \in DOMAIN rq : IngestError(s)
    \/ \E s \in DOMAIN rq : IngestEnd(s)
    \/ \E s \in DOMAIN rq : Finalize(s)
    \/ /\ \A s \in DOMAIN rq : rq[s].pc \in {"idle", "resolve", "rejected", "done"}
       /\ \E force_refresh \in BOOLEAN : ListAgents(force_refresh)

SpecRelay == InitRelay /\ [][NextRelay]_vars

\* The generator is driven to its end by the response it feeds
FairRelay == SpecRelay /\ WF_vars(\E s \in DOMAIN rq : RelayStep(s))


\* POST /query over the same upstreams: the requests of the relay, buffered
NextQuery ==
    \/ \E s \in DOMAIN rq, token \in RelayTokens, body \in RequestBodies :
          Query(s, token, body)
    \/ \E s \in DOMAIN rq : RelayStep(s)
    \/ \E s \in DOMAIN rq : QueryReturn(s)

SpecQuery == InitRelay /\ [][NextQuery]_vars


\* The credential store on its own: signups, logins, token checks and deletions
InitAuth ==
    /\ now = 0
    /\ adb \in BOOLEAN
    /\ users = <<>>
    /\ hdb = TRUE
    /\ docs = <<>>
    /\ cache = Some(<<>>)
    /\ cacheTime = 0
    /\ rq = <<>>
    /\ su = <<>>
    /\ last = [op |-> "init"]

NextAuth ==
    \/ \E email \in Emails, password \in Passwords : Signup(email, password)
    \/ \E email \in Emails, password \in Passwords : Login(email, password)
    \/ \E token \in Tokens : AuthMe(token)
    \/ \E token \in Tokens : DeleteMe(token)
    \/ \E user_id \in UserIds : DeleteUserCall(user_id)
    \/ Tick(TOKEN_LIFETIME)

SpecAuth == InitAuth /\ [][NextAuth]_vars

\* The registry on its own: listings, forced or not, while the cache ages
RegistryStep == AGENT_CONFIGS_CACHE_TTL \div 3
InitRegistry ==
    /\ now = 0
    /\ adb = TRUE
    /\ users = <<>>
    /\ hdb = TRUE
    /\ docs = <<>>
    /\ \E outcome \in ScanOutcomes :
          cache = Some(scan_agent_engine_reasoning_engines(outcome))
    /\ cacheTime = 0
    /\ rq = <<>>
    /\ su = <<>>
    /\ last = [op |-> "init"]

NextRegistry ==
    \/ \E force_refresh \in BOOLEAN : ListAgents(force_refresh)
    \/ Tick(RegistryStep)
    \/ Tick(AGENT_CONFIGS_CACHE_TTL)

SpecRegistry == InitRegistry /\ [][NextRegistry]_vars

\* The registry from the import of the module on: the cache starts unset
InitCache ==
    /\ now = 0
    /\ adb = TRUE
    /\ users = <<>>
    /\ hdb = TRUE
    /\ docs = <<>>
    /\ cache = None
    /\ cacheTime = 0
    /\ rq = <<>>
    /\ su = <<>>
    /\ last = [op |-> "init"]

NextCache ==
    \/ LoadAtImport
    \/ cache # None /\ \E force_refresh \in BOOLEAN : ListAgents(force_refresh)
    \/ Tick(RegistryStep)
    \/ Tick(AGENT_CONFIGS_CACHE_TTL)

SpecCache == InitCache /\ [][NextCache]_vars

\* Signup and login with passwords at the edges, deletions in between
NextSignup ==
    \/ \E email \in {EmAlice, EmBob}, password \in EdgePasswords : Signup(email, password)
    \/ \E email \in {EmAlice, EmBob}, password \in EdgePasswords : Login(email, password)
    \/ \E user_id \in UserIds : DeleteUserCall(user_id)

SpecSignup == InitAuth /\ [][NextSignup]_vars

\* create_user over every shape of email string
NextDomain ==
    \/ \E email \in DomainEmails, password \in {PwSecret, PwShort} : Signup(email, password)
    \/ \E user_id \in UserIds : DeleteUserCall(user_id)

SpecDomain == InitAuth /\ [][NextDomain]_vars

\* Two create_user calls at a time, step by step, with deletions in between
SignupCalls == {1, 2}
InitSignupRace ==
    /\ now = 0
    /\ adb = TRUE
    /\ users = <<>>
    /\ hdb = TRUE
    /\ docs = <<>>
    /\ cache = Some(<<>>)
    /\ cacheTime = 0
    /\ rq = <<>>
    /\ su = [p \in SignupCalls |-> IdleSignup]
    /\ last = [op |-> "init"]

NextSignupRace ==
    \/ \E p \in SignupCalls, email \in {EmAlice, EmAliceTyped, EmBob},
          password \in {PwSecret, PwOther} : CreateUserCheck(p, email, password)
    \/ \E p \in SignupCalls : CreateUserWrite(p)
    \/ \E p \in SignupCalls : CreateUserReturn(p)
    \/ \E user_id \in UserIds : DeleteUserCall(user_id)

SpecSignupRace == InitSignupRace /\ [][NextSignupRace]_vars

\* The history store on its own: the four operations called for either user
Responses == {"Hi there"}
Limits == {1, 2}

InitHistory ==
    /\ now = 0
    /\ adb = TRUE
    /\ users = <<>>
    /\ hdb \in BOOLEAN
    /\ docs = <<>>
    /\ cache = Some(<<>>)
    /\ cacheTime = 0
    /\ rq = <<>>
    /\ su = <<>>
    /\ last = [op |-> "init"]

NextHistory ==
    \/ \E user_id \in UserIds, message \in Messages, response \in Responses :
          SaveQuery(user_id, "billing_agent", message, response)
    \/ \E user_id \in UserIds \cup {""}, limit \in Limits : GetQueryHistory(user_id, limit)
    \/ \E query_id \in DocIds, user_id \in UserIds : DeleteQuery(query_id, user_id)
    \/ \E user_id \in UserIds \cup {""} : DeleteAllHistory(user_id)
    \/ Tick(1)

SpecHistory == InitHistory /\ [][NextHistory]_vars

\* The endpoints over the history store: u1 and u2 are active users, the store
\* holds records that earlier exchanges of either saved, in either order of
\* document id; a caller presents the token of either user or a forged one and
\* names either user
ApiTokens == {TokenFor("u1"), TokenFor("u2"), [TokenFor("u1") EXCEPT !.key = "forged"]}
ApiLimits == {0, 2, HISTORY_LIMIT_MAX + 1}
ApiBody == [message |-> "2+2?", agent_name |-> "billing_agent", user_id |-> "u2"]

InitHistoryApi ==
    /\ now = 0
    /\ adb = TRUE
    /\ users = ("u1" :> UserDoc("u1", EmAlice, TRUE)) @@ ("u2" :> UserDoc("u2", EmBob, TRUE))
    /\ hdb = TRUE
    /\ \E owner \in [DocIds -> UserIds], newest_first \in BOOLEAN :
          docs = [id \in DocIds |->
                    [user_id |-> owner[id], agent_name |-> "billing_agent",
                     message |-> "2+2?", response |-> "Hi there",
                     timestamp |-> IF newest_first THEN MaxDocs - id ELSE id]]
    /\ cache = Some(ConfigsOf(<<EngBilling>>))
    /\ cacheTime = 0
    /\ rq = [s \in {1} |-> IdleRq]
    /\ su = <<>>
    /\ last = [op |-> "init"]

NextHistoryApi ==
    \/ \E token \in ApiTokens, user_id \in UserIds, limit \in ApiLimits :
          GetHistory(token, user_id, limit)
    \/ \E token \in ApiTokens, query_id \in DocIds, user_id \in UserIds :
          DeleteHistoryItem(token, query_id, user_id)
    \/ \E token \in ApiTokens, user_id \in UserIds : DeleteAllHistoryEndpoint(token, user_id)
    \/ \E s \in DOMAIN rq, token \in ApiTokens : QueryStream(s, token, ApiBody)

SpecHistoryApi == InitHistoryApi /\ [][NextHistoryApi]_vars

\* Accounts being deleted while their owners and others use the history endpoints
NextSoftDelete ==
    \/ \E token \in ApiTokens : DeleteMe(token)
    \/ \E user_id \in UserIds : DeleteUserCall(user_id)
    \/ \E token \in ApiTokens, user_id \in UserIds, limit \in ApiLimits :
          GetHistory(token, user_id, limit)
    \/ \E token \in ApiTokens, query_id \in DocIds, user_id \in UserIds :
          DeleteHistoryItem(token, query_id, user_id)
    \/ \E token \in ApiTokens, user_id \in UserIds : DeleteAllHistoryEndpoint(token, user_id)
    \/ \E email \in {EmAlice, EmBob}, password \in {PwSecret} : Login(email, password)
    \/ \E email \in {EmAlice, EmBob}, password \in {PwSecret} : Signup(email, password)

SpecSoftDelete == InitHistoryApi /\ [][NextSoftDelete]_vars

\* The relay against the clock: lines arrive after waits under the timeout, or
\* the wait for the next one exceeds it
NextTimed ==
    \/ \E s \in DOMAIN rq, token \in RelayTokens : QueryStream(s, token, ApiBody)
    \/ \E s \in DOMAIN rq : Resolve(s)
    \/ \E s \in DOMAIN rq : Dispatch(s)
    \/ \E s \in DOMAIN rq, gap \in LineGaps : IngestLineAfter(s, gap)
    \/ \E s \in DOMAIN rq : ReadTimeout(s)
    \/ \E s \in DOMAIN rq : IngestEnd(s)
    \/ \E s \in DOMAIN rq : Finalize(s)

SpecTimed == InitRelay /\ [][NextTimed]_vars

\* Two /query/stream requests in flight at once, from two users, each with its
\* own upstream response; their steps interleave in any order, and the registry
\* cache expires in between, so that either request may refresh it
SlotToken(s) == IF s = 1 THEN TokenFor("u1") ELSE TokenFor("u2")
SlotBody(s) ==
    IF s = 1 THEN ApiBody
    ELSE [message |-> "total cost?", agent_name |-> "billing_agent", user_id |-> "u1"]
SlotFrames(s) == IF s = 1 THEN {LineHi} ELSE {LineFlat, LineBlank}

InitConcurrent ==
    /\ now = 0
    /\ adb = TRUE
    /\ users = ("u1" :> UserDoc("u1", EmAlice, TRUE)) @@ ("u2" :> UserDoc("u2", EmBob, TRUE))
    /\ hdb = TRUE
    /\ docs = <<>>
    /\ cache = Some(ConfigsOf(<<EngBilling>>))
    /\ cacheTime = 0
    /\ rq = [s \in {1, 2} |-> IdleRq]
    /\ su = <<>>
    /\ last = [op |-> "init"]

NextConcurrent ==
    \/ \E s \in DOMAIN rq : QueryStream(s, SlotToken(s), SlotBody(s))
    \/ \E s \in DOMAIN rq : Resolve(s)
    \/ \E s \in DOMAIN rq : Dispatch(s)
    \/ \E s \in DOMAIN rq : \E frame \in SlotFrames(s) : IngestFrame(s, frame)
    \/ \E s \in DOMAIN rq : IngestError(s)
    \/ \E s \in DOMAIN rq : IngestEnd(s)
    \/ \E s \in DOMAIN rq : Finalize(s)
    \/ Tick(AGENT_CONFIGS_CACHE_TTL)

SpecConcurrent == InitConcurrent /\ [][NextConcurrent]_vars


(***************************************************************************)
(* CLAIMS                                                                  *)
(***************************************************************************)

\* C2: whatever save_query, delete_query and delete_all_history calls either user
\* made before, every record get_query_history(A, limit) returns, on the ordered
\* path and on the no-index fallback path alike, is a stored record owned by A.
C2_HistoryOnlyOwnRecords ==
    last.op = "get_query_history" =>
        \A i \in 1 .. Len(last.ret) :
            /\ last.ret[i].user_id = last.user_id
            /\ last.ret[i].id \in DOMAIN docs
            /\ docs[last.ret[i].id].user_id = last.user_id

\* C2 witness: the fallback path answers A with A's record while the store also
\* holds a record of B with a smaller id and one with a larger id.
C2_Witness ==
    /\ last.op = "get_query_history"
    /\ last.path = "no_index"
    /\ Len(last.ret) = 1
    /\ \E b \in DOMAIN docs : docs[b].user_id # last.user_id /\ b < last.ret[1].id
    /\ \E b \in DOMAIN docs : docs[b].user_id # last.user_id /\ b > last.ret[1].id

\* C3: delete_query(record_id, user_id) returns true and removes exactly that
\* record when the store is initialised, the record exists and its stored user_id
\* equals user_id; in every other case it returns false and the store is unchanged.
C3_DeleteQueryOwnerOnly ==
    [][ last'.op = "delete_query" =>
            LET q == last'.query_id
                u == last'.user_id
            IN  IF hdb /\ q \in DOMAIN docs /\ docs[q].user_id = u
                THEN /\ last'.ret = TRUE
                     /\ DOMAIN docs' = DOMAIN docs \ {q}
                     /\ \A id \in DOMAIN docs' : docs'[id] = docs[id]
                ELSE /\ last'.ret = FALSE
                     /\ docs' = docs ]_vars

\* C3 witness: the caller named a record that exists and belongs to the other
\* user; the call returned false and the record is still there.
C3_Witness ==
    /\ last.op = "delete_query"
    /\ last.ret = FALSE
    /\ hdb
    /\ last.query_id \in DOMAIN docs
    /\ docs[last.query_id].user_id # last.user_id

\* C4: a request passes verify_token only with a token signed with the server key,
\* unexpired, carrying a user id whose user document exists and is active at that
\* moment; a deactivated user is never active again, so after delete_user(u) every
\* request bearing a token of u is answered 401.
C4_TokenNeedsActiveUser ==
    [][ /\ (last'.op \in {"auth_me", "delete_me"} /\ last'.status # 401) =>
              /\ last'.token.key = SECRET_KEY
              /\ last'.token.exp >= now
              /\ last'.token.sub # None
              /\ adb
              /\ last'.token.sub[1] \in DOMAIN users
              /\ users[last'.token.sub[1]].active
        /\ \A u \in DOMAIN users :
              ~users[u].active => (u \in DOMAIN users' /\ ~users'[u].active) ]_vars

\* C4 witness: after delete_user(u), a token of u that is signed by the server and
\* not expired is rejected with 401.
C4_Witness ==
    /\ last.op = "auth_me"
    /\ last.status = 401
    /\ last.token.key = SECRET_KEY
    /\ last.token.exp >= now
    /\ last.token.sub # None
    /\ last.token.sub[1] \in DOMAIN users
    /\ ~users[last.token.sub[1]].active


\* What the claims about the relay read off a request
ReqSlots == {1, 2}
Terminal(e) == "done" \in DOMAIN e /\ e.done = TRUE
IsText(e) == "text" \in DOMAIN e
TerminalAt(out) == {i \in 1 .. Len(out) : Terminal(out[i])}
TextsOf(out) ==
    LET t == SelectSeq(out, IsText) IN [i \in 1 .. Len(t) |-> t[i].text]
RECURSIVE Concat(_)
Concat(texts) == IF texts = <<>> THEN "" ELSE Head(texts) \o Concat(Tail(texts))
RECURSIVE ExtractedFrom(_)
ExtractedFrom(lines) ==
    IF lines = <<>> THEN <<>>
    ELSE ExtractedFrom(SubSeq(lines, 1, Len(lines) - 1)) \o ExtractLine(lines[Len(lines)]).texts
Started(s) == s \in DOMAIN rq /\ rq[s].pc \notin {"idle", "rejected"}
EndedWell(s) ==
    /\ s \in DOMAIN rq
    /\ rq[s].pc = "done"
    /\ rq[s].out # <<>>
    /\ TerminalAt(rq[s].out) = {Len(rq[s].out)}

\* C1: every /query/stream request that passed authentication ends its event
\* stream with an event carrying done=true, under every upstream outcome; at most
\* one such event is ever in the stream, it is the last one, and once it is sent
\* the stream does not change again.
C1_StreamAlwaysTerminates ==
    /\ [](\A s \in ReqSlots : Started(s) =>
            /\ Cardinality(TerminalAt(rq[s].out)) <= 1
            /\ TerminalAt(rq[s].out) \subseteq {Len(rq[s].out)}
            /\ (rq[s].pc = "done" <=> TerminalAt(rq[s].out) # {}))
    /\ [][\A s \in ReqSlots : (Started(s) /\ rq[s].pc = "done") => rq'[s] = rq[s]]_vars
    /\ \A s \in ReqSlots : (Started(s) ~> EndedWell(s))

\* C1 witness: the upstream connection broke after text had been forwarded and the
\* save failed too; the stream still ended with its one done event.
C1_Witness ==
    /\ Started(1)
    /\ EndedWell(1)
    /\ rq[1].ended = "error"
    /\ rq[1].response_text # ""
    /\ rq[1].saves # <<>>
    /\ rq[1].saves[1].raised


\* C5: when the upstream stream has ended with non-empty final text, the relay has
\* called save_query exactly once, after every text increment and right before the
\* terminal event, with the user id of the verified token (not the one in the
\* request body), the requested agent name, the request message and the
\* concatenated text; when that call returned an id, the terminal event is
\* {query_id: id, done: true} and the record stored under id holds these values.
\* No save_query call is made at any other point of a request.
C5_SavedOnceAsTokenUser ==
    \A s \in DOMAIN rq :
        /\ Len(rq[s].saves) <= 1
        /\ rq[s].saves # <<>> => rq[s].pc = "done"
        /\ (rq[s].pc = "done" /\ rq[s].ended # "" /\ rq[s].response_text # "") =>
              /\ Len(rq[s].saves) = 1
              /\ LET c == rq[s].saves[1]
                     out == rq[s].out
                 IN  /\ c.user_id = rq[s].token[1].sub[1]
                     /\ c.agent_name = rq[s].body[1].agent_name
                     /\ c.message = rq[s].body[1].message
                     /\ c.response = Concat(TextsOf(out))
                     /\ c.at = Len(out) - 1
                     /\ \A i \in 1 .. c.at : IsText(out[i])
                     /\ Terminal(out[Len(out)])
                     /\ ~c.raised =>
                           /\ out[Len(out)] = [query_id |-> c.id[1], done |-> TRUE]
                           /\ c.id[1] \in DOMAIN docs
                           /\ docs[c.id[1]].user_id = rq[s].token[1].sub[1]
                           /\ docs[c.id[1]].agent_name = rq[s].body[1].agent_name
                           /\ docs[c.id[1]].message = rq[s].body[1].message
                           /\ docs[c.id[1]].response = c.response

\* C5 witness: a request whose body names another user than its token was saved
\* and answered with the id of the new record.
C5_Witness ==
    /\ rq[1].pc = "done"
    /\ rq[1].saves # <<>>
    /\ ~rq[1].saves[1].raised
    /\ rq[1].body[1].user_id # rq[1].token[1].sub[1]
    /\ rq[1].out[Len(rq[1].out)] = [query_id |-> rq[1].saves[1].id[1], done |-> TRUE]
    /\ docs[rq[1].saves[1].id[1]].user_id = "u1"

\* C6: at every point of a request fed by upstream lines, the text events
\* forwarded so far are exactly the text values of the lines read so far, lines
\* in arrival order and parts in list order; the final text, and the response
\* persisted, is the concatenation of the forwarded increments in that order
\* (lines "Hi" then " there" give "Hi", " there" and "Hi there").
C6_IncrementsInUpstreamOrder ==
    \A s \in DOMAIN rq :
        /\ rq[s].lines # <<>> => TextsOf(rq[s].out) = ExtractedFrom(rq[s].lines)
        /\ rq[s].response_text = Concat(TextsOf(rq[s].out))
        /\ \A i \in 1 .. Len(rq[s].saves) :
              /\ rq[s].saves[i].response = Concat(TextsOf(rq[s].out))
              /\ ~rq[s].saves[i].raised =>
                    docs[rq[s].saves[i].id[1]].response = Concat(TextsOf(rq[s].out))
        /\ rq[s].lines = <<LineHi, LineThere>> =>
              /\ TextsOf(rq[s].out) = <<"Hi", " there">>
              /\ rq[s].response_text = "Hi there"
        /\ rq[s].lines = <<LineTwoParts, LineHi>> => TextsOf(rq[s].out) = <<"a", "b", "Hi">>

\* C6 witness: lines "Hi" then " there" were forwarded in that order and the
\* record persisted holds "Hi there".
C6_Witness ==
    /\ rq[1].pc = "done"
    /\ rq[1].lines = <<LineHi, LineThere>>
    /\ rq[1].saves # <<>>
    /\ ~rq[1].saves[1].raised
    /\ rq[1].out = <<[text |-> "Hi"], [text |-> " there"],
                     [query_id |-> rq[1].saves[1].id[1], done |-> TRUE]>>
    /\ docs[rq[1].saves[1].id[1]].response = "Hi there"

\* Every stored record was written by a save_query call that returned its id
DocsComeFromSaves ==
    \A id \in DOMAIN docs :
        \E s \in DOMAIN rq : \E i \in 1 .. Len(rq[s].saves) :
            ~rq[s].saves[i].raised /\ rq[s].saves[i].id = Some(id)

\* C7: when the upstream endpoint answers the dispatch with a status other than
\* 200, the stream is one event: done=true with an error that carries the status
\* and the first 500 characters of the upstream body; no text event is sent,
\* save_query is not called and no history record is created.
C7_Non200IsOneErrorEvent ==
    /\ DocsComeFromSaves
    /\ \A s \in DOMAIN rq :
          (/\ rq[s].dispatch # None
           /\ rq[s].dispatch[1].kind = "response"
           /\ rq[s].dispatch[1].status # 200) =>
              LET body == rq[s].dispatch[1].body
                  out == rq[s].out
              IN  /\ rq[s].pc = "done"
                  /\ Len(out) = 1
                  /\ DOMAIN out[1] = {"error", "done"}
                  /\ out[1].done = TRUE
                  /\ out[1].error.status = rq[s].dispatch[1].status
                  /\ Len(out[1].error.error_text) = Min(Len(body), 500)
                  /\ \A i \in 1 .. Len(out[1].error.error_text) :
                        out[1].error.error_text[i] = body[i]
                  /\ rq[s].saves = <<>>

\* C7 witness: upstream answered 500 with a body of 501 characters; the one event
\* carries 500 of them.
C7_Witness ==
    /\ rq[1].dispatch # None
    /\ rq[1].dispatch[1].status = 500
    /\ Len(rq[1].dispatch[1].body) = 501
    /\ Len(rq[1].out) = 1
    /\ Len(rq[1].out[1].error.error_text) = 500
    /\ docs = <<>>


\* C8: when the registry seen by a request has no descriptor under the requested
\* name, or has one whose endpoint identifier is empty, the stream is exactly one
\* error event with done=true, no request was sent to the remote endpoint and
\* save_query was not called; no request is ever posted to an empty endpoint
\* identifier; and /agents lists every descriptor of the registry, the one with an
\* empty endpoint identifier with is_available = false.
C8_UnresolvableAgentIsOneError ==
    /\ DocsComeFromSaves
    /\ \A s \in DOMAIN rq :
          /\ \A i \in 1 .. Len(rq[s].posts) : rq[s].posts[i].engine # ""
          /\ (/\ rq[s].seen # None
              /\ \/ rq[s].agent_name \notin DOMAIN rq[s].seen[1]
                 \/ rq[s].seen[1][rq[s].agent_name].reasoning_engine_id = "") =>
                /\ rq[s].pc = "done"
                /\ Len(rq[s].out) = 1
                /\ DOMAIN rq[s].out[1] = {"error", "done"}
                /\ rq[s].out[1].done = TRUE
                /\ rq[s].posts = <<>>
                /\ rq[s].dispatch = None
                /\ rq[s].saves = <<>>
    /\ (last.op = "list_agents" /\ cache # None) =>
          /\ Len(last.ret) = Cardinality(DOMAIN cache[1])
          /\ \A k \in DOMAIN cache[1] :
                \E i \in 1 .. Len(last.ret) :
                   /\ last.ret[i].name = cache[1][k].name
                   /\ last.ret[i].reasoning_engine_id = cache[1][k].reasoning_engine_id
                   /\ last.ret[i].is_available = (cache[1][k].reasoning_engine_id # "")

\* C8 witness: /agents listed the draft agent as unavailable and a request for it
\* ended with the one error event, nothing having been posted.
C8_Witness ==
    /\ rq[1].pc = "done"
    /\ rq[1].agent_name = "draft_agent"
    /\ rq[1].seen # None
    /\ "draft_agent" \in DOMAIN rq[1].seen[1]
    /\ rq[1].out = <<ErrorEvent([msg |-> "not configured", agent |-> "draft_agent"])>>
    /\ rq[1].posts = <<>>
    /\ last.op = "list_agents"
    /\ \E i \in 1 .. Len(last.ret) :
          last.ret[i].name = "draft_agent" /\ ~last.ret[i].is_available

\* C9: when the upstream stream (HTTP 200) has ended normally without any text
\* increment, the stream is the one terminal event {done: true, warning: ...},
\* without error and without query_id, and save_query was not called; no
\* save_query call and no stored record has an empty response.
C9_EmptyResponseIsNotSaved ==
    /\ \A id \in DOMAIN docs : docs[id].response # ""
    /\ \A s \in DOMAIN rq :
          /\ \A i \in 1 .. Len(rq[s].saves) : rq[s].saves[i].response # ""
          /\ (rq[s].pc = "done" /\ rq[s].ended = "eof" /\ TextsOf(rq[s].out) = <<>>) =>
                /\ Len(rq[s].out) = 1
                /\ DOMAIN rq[s].out[1] = {"done", "warning"}
                /\ rq[s].out[1].done = TRUE
                /\ rq[s].saves = <<>>

\* C9 witness: upstream sent one frame that holds a function call and no text, then
\* ended; the stream is the warning event alone and nothing is stored.
C9_Witness ==
    /\ rq[1].pc = "done"
    /\ rq[1].ended = "eof"
    /\ rq[1].lines = <<LineCall>>
    /\ rq[1].out = <<EmptyEvent>>
    /\ rq[1].saves = <<>>
    /\ docs = <<>>

\* C10: when save_query has raised, the stream has ended with a done=true event
\* that carries save_error and neither error nor query_id; the events before it
\* are exactly the text increments forwarded before the call, no error event is
\* in the stream, and the call created no record.
C10_SaveFailureStillDone ==
    \A s \in DOMAIN rq :
        \A i \in 1 .. Len(rq[s].saves) :
            rq[s].saves[i].raised =>
                LET out == rq[s].out
                IN  /\ rq[s].pc = "done"
                    /\ Len(out) = rq[s].saves[i].at + 1
                    /\ DOMAIN out[Len(out)] = {"done", "save_error"}
                    /\ out[Len(out)].done = TRUE
                    /\ \A j \in 1 .. Len(out) - 1 : DOMAIN out[j] = {"text"}
                    /\ rq[s].saves[i].at >= 1
                    /\ rq[s].saves[i].response = Concat(TextsOf(out))
                    /\ \A j \in 1 .. Len(out) : "error" \notin DOMAIN out[j]
                    /\ rq[s].saves[i].id = None
                    /\ DocsComeFromSaves

\* C10 witness: the text "Hi" was forwarded, the write to the store failed, and
\* the stream ended with the save_error event.
C10_Witness ==
    /\ rq[1].pc = "done"
    /\ hdb
    /\ rq[1].saves # <<>>
    /\ rq[1].saves[1].raised
    /\ rq[1].out = <<[text |-> "Hi"], SaveErrorEvent("write failed")>>
    /\ docs = <<>>


\* C11 as stated: right after create_user accepted (email, password),
\* authenticate_user(email, password) with the same password string returns the
\* id and the email of the user created.
C11_SignupThenLogin ==
    (last.op = "create_user" /\ last.ret = "ok") =>
        authenticate_user(last.email, last.password) =
            Some([user_id |-> last.user_id[1], email |-> Lower(last.email)])

\* C11, what the code gives: the round trip holds for every accepted password
\* that has no leading or trailing whitespace (get_password_hash strips the
\* password before hashing it, authenticate_user verifies it as typed).
C11_SignupThenLoginUnpadded ==
    (last.op = "create_user" /\ last.ret = "ok" /\ Strip(last.password) = last.password) =>
        authenticate_user(last.email, last.password) =
            Some([user_id |-> last.user_id[1], email |-> Lower(last.email)])

\* C11 witness: "secret1 " was accepted at signup and the same string does not log in,
\* while "secret1" does.
C11_Witness ==
    /\ last.op = "create_user"
    /\ last.ret = "ok"
    /\ last.password = PwPadded
    /\ authenticate_user(last.email, PwPadded) = None
    /\ authenticate_user(last.email, PwSecret) # None


\* The three ways a login attempt fails, read from the store
UnknownEmail(email) == UsersWithEmail(Lower(email)) = {}
DeactivatedAccount(email) == \E id \in UsersWithEmail(Lower(email)) : ~users[id].active
WrongPassword(email, password) ==
    \E id \in UsersWithEmail(Lower(email)) :
        /\ users[id].active
        /\ users[id].password_hash # BcryptHash(Truncate72(password))
LoginFails(email, password) ==
    UnknownEmail(email) \/ DeactivatedAccount(email) \/ WrongPassword(email, password)

\* C12: in every state, any two login attempts that each fall into one of the
\* cases unknown email, wrong password, deactivated account get the same value
\* (None) from authenticate_user and the same response (401 with one and the same
\* detail, no token) from /auth/login; and a login that fell into one of them
\* was answered so.
C12_NoLoginOracle ==
    /\ LET failing == {a \in Emails \X Passwords : LoginFails(a[1], a[2])}
       IN  /\ \A a \in failing : authenticate_user(a[1], a[2]) = None
           /\ Cardinality({LoginResponse(authenticate_user(a[1], a[2])) : a \in failing}) <= 1
    /\ (last.op = "login" /\ LoginFails(last.email, last.password)) =>
          /\ last.user = None
          /\ last.status = 401
          /\ last.detail = "Invalid email or password"
          /\ last.token = None

\* C12 witness: a login with the right password of a deactivated account was
\* answered 401, in a state where an unknown email and a wrong password for an
\* active account can be tried as well.
C12_Witness ==
    /\ last.op = "login"
    /\ last.status = 401
    /\ DeactivatedAccount(last.email)
    /\ \E id \in UsersWithEmail(Lower(last.email)) :
          users[id].password_hash = BcryptHash(last.password)
    /\ \E e \in Emails : UnknownEmail(e)
    /\ \E e \in Emails, p \in Passwords : WrongPassword(e, p)


\* C13 as stated: create_user accepts a password only if it has 6 to 72 bytes; a
\* password of 72 bytes is accepted (the email being valid and new); a password
\* outside 6..72 bytes, 73 bytes included, is rejected and no user record is
\* created; and the hash stored is that of the whole password, not of a prefix.
C13_PasswordLengthBounds ==
    (last.op = "create_user" /\ adb /\ validate_email_domain(last.email)) =>
        /\ (Len(last.password) < 6 \/ Len(last.password) > BCRYPT_MAX_BYTES) =>
              /\ last.ret # "ok"
              /\ last.user_id = None
        /\ Len(last.password) = BCRYPT_MAX_BYTES => last.ret \in {"ok", "DuplicateAccount"}
        /\ last.ret = "ok" =>
              users[last.user_id[1]].password_hash = BcryptHash(Strip(last.password))

\* C13, what the code gives: a password shorter than 6 characters is rejected
\* with an invalid-password error; one of 72 bytes is accepted; one of 73 bytes is
\* accepted too, and the hash stored is that of its first 72 bytes.
C13_PasswordTruncatedAt72 ==
    (last.op = "create_user" /\ adb /\ validate_email_domain(last.email)) =>
        /\ Len(last.password) < 6 => (last.ret = "InvalidPassword" /\ last.user_id = None)
        /\ Len(last.password) >= BCRYPT_MAX_BYTES =>
              /\ last.ret \in {"ok", "DuplicateAccount"}
              /\ last.ret = "ok" =>
                    users[last.user_id[1]].password_hash
                        = BcryptHash(SubSeq(last.password, 1, BCRYPT_MAX_BYTES))

\* C13 witness: a password of 73 bytes was accepted and stored as the hash of
\* the 72-byte password, which then logs in.
C13_Witness ==
    /\ last.op = "create_user"
    /\ last.ret = "ok"
    /\ last.password = Pw73
    /\ users[last.user_id[1]].password_hash = BcryptHash(Pw72)
    /\ authenticate_user(last.email, Pw72) # None


\* C14 as stated: in every reachable state, whatever the interleaving of the
\* create_user and delete_user calls, no two active user records have the same
\* lowercased email.
C14_ActiveEmailUnique ==
    \A a \in DOMAIN users, b \in DOMAIN users :
        (a # b /\ users[a].active /\ users[b].active) => users[a].email # users[b].email

\* C14, what the code gives: a user record keeps its user_id, which is its
\* document id, and its email from creation on, and no record is ever removed.
C14_UserIdNeverChanges ==
    [][\A id \in DOMAIN users :
          /\ id \in DOMAIN users'
          /\ users[id].user_id = id
          /\ users'[id].user_id = users[id].user_id
          /\ users'[id].email = users[id].email]_vars

\* C14 witness: two create_user calls for the same address, one typed in capitals,
\* both passed the existence check before either wrote, and both wrote an
\* active record.
C14_Witness ==
    /\ su # <<>>
    /\ \A p \in DOMAIN su : su[p].pc = "done" /\ su[p].ret = "ok"
    /\ su[1].email # su[2].email
    /\ Lower(su[1].email) = Lower(su[2].email)
    /\ su[1].user_id # su[2].user_id
    /\ \A id \in DOMAIN users : users[id].active


\* C15 as stated: a delete_user call on an active user sets active = false and
\* returns true; a call on an already inactive user returns false and changes
\* nothing; a call for an unknown user id returns false and changes nothing.
C15_DeleteUserIdempotent ==
    [][last'.op = "delete_user" =>
          LET u == last'.user_id
          IN  IF u \notin DOMAIN users
              THEN last'.ret = FALSE /\ users' = users
              ELSE IF users[u].active /\ adb
              THEN last'.ret = TRUE /\ ~users'[u].active
              ELSE last'.ret = FALSE /\ users' = users]_vars

\* C15, what the code gives: delete_user returns true whenever the document
\* exists, active or not, and writes active = false and new updated_at and
\* deleted_at stamps each time; it returns false for an unknown id or without a
\* store, changing nothing; no other record is touched.
C15_DeleteUserReturnsTrueIfExists ==
    [][last'.op = "delete_user" =>
          LET u == last'.user_id
          IN  /\ last'.ret = (adb /\ u \in DOMAIN users)
              /\ ~last'.ret => users' = users
              /\ last'.ret =>
                    /\ users' = [users EXCEPT ![u] = [@ EXCEPT !.active = FALSE,
                                                              !.updated_at = now,
                                                              !.deleted_at = Some(now)]]]_vars

\* C15 witness: delete_user was called on a user deactivated at an earlier time,
\* returned true and moved the deletion stamp.
C15_Witness ==
    /\ last.op = "delete_user"
    /\ last.was_active = Some(FALSE)
    /\ last.ret = TRUE
    /\ now > 0
    /\ users[last.user_id].deleted_at = Some(now)
    /\ users[last.user_id].created_at < now


\* C16 as stated: a get_query_history(u, 1) that directly follows a successful
\* save_query(u, a, m, r), the store serving the query with or without the
\* composite index, returns exactly one record: the one with the id save_query
\* returned, with message m and response r.
C16_SaveThenListOne ==
    [][(/\ last.op = "save_query"
        /\ ~last.raised
        /\ last'.op = "get_query_history"
        /\ last'.user_id = last.user_id
        /\ last'.limit = 1
        /\ last'.path # "error") =>
           /\ Len(last'.ret) = 1
           /\ last'.ret[1].id = last.id[1]
           /\ last'.ret[1].message = last.message
           /\ last'.ret[1].response = last.response]_vars

\* C16, what the code gives: the round trip holds when the store serves the
\* ordered query; on the fallback without the index one record of u is returned,
\* the newest of the two records of u with the lowest document ids.
C16_SaveThenListOneOrdered ==
    [][(/\ last.op = "save_query"
        /\ ~last.raised
        /\ last'.op = "get_query_history"
        /\ last'.user_id = last.user_id
        /\ last'.limit = 1
        /\ last'.path # "error") =>
           /\ Len(last'.ret) = 1
           /\ last'.ret[1].user_id = last.user_id
           /\ last'.path = "ordered" =>
                 /\ last'.ret[1].id = last.id[1]
                 /\ last'.ret[1].message = last.message
                 /\ last'.ret[1].response = last.response
           /\ last'.path = "no_index" =>
                 LET first2 == Take(AscendingIds(WhereUser(last.user_id)), 2)
                 IN  /\ \E i \in 1 .. Len(first2) : first2[i] = last'.ret[1].id
                     /\ \A i \in 1 .. Len(first2) :
                           docs[first2[i]].timestamp <= docs[last'.ret[1].id].timestamp]_vars

\* C16 witness: u holds three records, the one just saved has the highest
\* document id, and the fallback query for one record returned an older one.
C16_Witness ==
    /\ last.op = "get_query_history"
    /\ last.path = "no_index"
    /\ last.limit = 1
    /\ Cardinality(WhereUser(last.user_id)) = 3
    /\ Len(last.ret) = 1
    /\ \E id \in WhereUser(last.user_id) :
          /\ \A other \in WhereUser(last.user_id) \ {id} :
                docs[other].timestamp < docs[id].timestamp /\ other < id
          /\ last.ret[1].id # id


\* C17: a delete_all_history(u) call returns the number of records u owned
\* before it, leaves no record owned by u, and leaves every record of every other
\* user in place and unchanged; a second delete_all_history(u) directly after it
\* returns 0 and changes nothing.
C17_DeleteAllTwice ==
    [][last'.op = "delete_all_history" =>
          LET u == last'.user_id
              owned == {id \in DOMAIN docs : docs[id].user_id = u}
          IN  /\ last'.ret = Cardinality(owned)
              /\ DOMAIN docs' = DOMAIN docs \ owned
              /\ \A id \in DOMAIN docs' : docs'[id] = docs[id]
              /\ (last.op = "delete_all_history" /\ last.user_id = u) =>
                    (last'.ret = 0 /\ docs' = docs)]_vars

\* C17 witness: delete_all_history(u) removed the two records of u and kept the
\* record of the other user.
C17_Witness ==
    /\ last.op = "delete_all_history"
    /\ last.ret = 2
    /\ Cardinality(DOMAIN docs) = 1
    /\ \A id \in DOMAIN docs : docs[id].user_id # last.user_id


\* C18 as stated: a listing whose refresh scan failed returns the agent set that
\* was cached before it when that set is not empty (a set that only a successful
\* scan can have stored), and keeps it cached; it returns the empty list otherwise.
C18_FailedScanKeepsLastGood ==
    [][(last'.op = "list_agents" /\ last'.failed) =>
          IF cache # None /\ cache[1] # <<>>
          THEN last'.ret = SortedAgents(cache[1]) /\ cache' = cache
          ELSE last'.ret = <<>>]_vars

\* C18, what the code gives: a listing whose refresh scan failed returns the
\* empty list and stores the empty set in the cache with a new cache time,
\* whatever was cached before; the next listing within the cache lifetime is
\* answered from that empty cache.
C18_FailedScanEmptiesCache ==
    [][(last'.op = "list_agents" /\ last'.failed) =>
          /\ last'.ret = <<>>
          /\ cache' = Some(<<>>)
          /\ cacheTime' = now]_vars

\* C18 witness: the cache took the empty set at a time after start, and the
\* last listing was a failed refresh that returned nothing.
C18_Witness ==
    /\ last.op = "list_agents"
    /\ last.failed
    /\ last.ret = <<>>
    /\ cache = Some(<<>>)
    /\ cacheTime = now
    /\ now > 0


\* C19: a GET /history answered 200 returns stored records of the user named
\* only, in descending order of creation time, and at most min(max(limit, 1), 100)
\* of them, the store having been asked with exactly that limit, for every
\* requested limit, those below 1 and above 100 included.
C19_HistoryClampedNewestFirst ==
    (last.op = "get_history" /\ last.status = 200) =>
        LET bound == IF last.limit < 1 THEN 1
                     ELSE IF last.limit > 100 THEN 100 ELSE last.limit
        IN  /\ Len(last.ret) <= bound
            /\ Len(last.called) = 1
            /\ last.called[1].limit = bound
            /\ last.called[1].user_id = last.user_id
            /\ \A i \in 1 .. Len(last.ret) :
                  /\ last.ret[i].user_id = last.user_id
                  /\ last.ret[i].id \in DOMAIN docs
                  /\ docs[last.ret[i].id].user_id = last.user_id
                  /\ last.ret[i].timestamp = Iso(docs[last.ret[i].id].timestamp)
            /\ \A i \in 1 .. Len(last.ret), j \in 1 .. Len(last.ret) :
                  i < j => docs[last.ret[j].id].timestamp <= docs[last.ret[i].id].timestamp

\* C19 witness: asked with limit 0, with three records in the store of which two
\* are the caller's, GET /history returned one record.
C19_Witness ==
    /\ last.op = "get_history"
    /\ last.status = 200
    /\ last.limit = 0
    /\ Len(last.ret) = 1
    /\ Cardinality(WhereUser(last.user_id)) = 2
    /\ Cardinality(DOMAIN docs) = 3

\* C20: GET /history, DELETE /history/{id} and DELETE /history called with a
\* valid token and a user_id that is not the token's answer 403, call no function
\* of the history store and leave the store as it was; called with an invalid
\* token they answer 401, likewise without a call; and a /query/stream request
\* with an invalid token is rejected with 401 with nothing posted upstream,
\* nothing streamed and nothing saved.
C20_MismatchIs403NoStoreAccess ==
    [][/\ last'.op \in {"get_history", "delete_history_item", "delete_all_history_endpoint"} =>
             LET decoded == decode_token(last'.token)
                 valid == /\ decoded # None
                          /\ decoded[1].user_id \in DOMAIN users
                          /\ users[decoded[1].user_id].active
             IN  /\ ~valid => (last'.status = 401 /\ last'.called = <<>> /\ docs' = docs)
                 /\ (valid /\ last'.user_id # decoded[1].user_id) =>
                       (last'.status = 403 /\ last'.called = <<>> /\ docs' = docs)
                 /\ last'.called # <<>> =>
                       (valid /\ last'.called[1].user_id = decoded[1].user_id)
       /\ \A s \in DOMAIN rq :
             (rq[s].pc = "idle" /\ rq'[s].pc # "idle") =>
                 LET decoded == decode_token(rq'[s].token[1])
                     valid == /\ decoded # None
                              /\ decoded[1].user_id \in DOMAIN users
                              /\ users[decoded[1].user_id].active
                 IN  ~valid => /\ rq'[s].pc = "rejected"
                               /\ rq'[s].http = 401
                               /\ rq'[s].posts = <<>>
                               /\ rq'[s].out = <<>>
                               /\ rq'[s].saves = <<>>
                               /\ docs' = docs]_vars

\* C20 witness: DELETE /history with the token of one user and the user_id of the
\* other, who has records, was answered 403 and the records are still there.
C20_Witness ==
    /\ last.op = "delete_all_history_endpoint"
    /\ last.status = 403
    /\ last.called = <<>>
    /\ last.token.key = SECRET_KEY
    /\ last.token.sub # Some(last.user_id)
    /\ Cardinality(WhereUser(last.user_id)) = 2



\* C21: POST /query is the buffered form of /query/stream: when it returns, its
\* response text is the concatenation, in order, of the text increments the
\* generator emitted, its query_id is the id carried by the terminal event (null
\* when that event carries none), its user_id and agent_name are those the relay
\* ran with, and the history store holds exactly what the relay saved: the record
\* the terminal event names, with the returned text, or nothing new.
C21_QueryIsBufferedStream ==
    \A s \in DOMAIN rq :
        (rq[s].buffered /\ rq[s].reply # None) =>
            LET r == rq[s]
                reply == r.reply[1]
                final == r.out[Len(r.out)]
            IN  /\ r.out # <<>>
                /\ TerminalAt(r.out) = {Len(r.out)}
                /\ reply.response = Concat(TextsOf(r.out))
                /\ reply.query_id = IF "query_id" \in DOMAIN final
                                    THEN Some(final.query_id) ELSE None
                /\ reply.user_id = r.user_id
                /\ reply.agent_name = r.agent_name
                /\ reply.query_id # None =>
                      /\ reply.query_id[1] \in DOMAIN docs
                      /\ docs[reply.query_id[1]].response = reply.response
                      /\ docs[reply.query_id[1]].user_id = reply.user_id
                      /\ docs[reply.query_id[1]].agent_name = reply.agent_name
                      /\ docs[reply.query_id[1]].message = r.message
                /\ reply.query_id = None => DOMAIN docs = {}

\* C21 witness: a POST /query whose upstream sent two lines of text returned both
\* texts in one response together with the id of the record saved.
C21_Witness ==
    /\ rq[1].buffered
    /\ rq[1].reply # None
    /\ Len(TextsOf(rq[1].out)) = 2
    /\ rq[1].reply[1].response # ""
    /\ rq[1].reply[1].query_id # None

\* C22: delete_user is a soft delete.  No step ever removes a user document; a
\* deletion leaves every history record as it was and every user document with
\* its user_id, email and password_hash, and the user it was called for inactive;
\* and while a user is inactive the API neither logs them in, nor registers their
\* email again, nor answers their token with history, nor changes their records.
C22_SoftDelete ==
    [][/\ DOMAIN users \subseteq DOMAIN users'
       /\ last'.op \in {"delete_me", "delete_user"} =>
             /\ docs' = docs
             /\ \A u \in DOMAIN users :
                   /\ users'[u].user_id = users[u].user_id
                   /\ users'[u].email = users[u].email
                   /\ users'[u].password_hash = users[u].password_hash
       /\ (last'.op = "delete_user" /\ last'.ret) => ~users'[last'.user_id].active
       /\ (last'.op = "delete_me" /\ last'.status = 200) =>
             ~users'[decode_token(last'.token)[1].user_id].active
       /\ \A u \in DOMAIN users : ~users[u].active =>
             /\ ~users'[u].active
             /\ \A id \in DOMAIN docs : docs[id].user_id = u =>
                   (id \in DOMAIN docs' /\ docs'[id] = docs[id])
             /\ last'.op = "get_history" =>
                   (last'.ret = <<>> \/ last'.user_id # u)
             /\ (last'.op = "login" /\ last'.email = users[u].email) => last'.status = 401
             /\ Cardinality(UsersWithEmail(users[u].email)) = 1]_vars

\* C22 witness: a user with history records deleted their account and then asked
\* for their history with the same token: 401, and the records are in the store.
C22_Witness ==
    /\ last.op = "get_history"
    /\ last.status = 401
    /\ last.token = TokenFor(last.user_id)
    /\ ~users[last.user_id].active
    /\ users[last.user_id].deleted_at # None
    /\ Cardinality(WhereUser(last.user_id)) >= 2

\* The domain of an address: what follows the "@" that ends the local part
DomainOf(email) == IF Len(email) < 2 THEN None ELSE Some(email[Len(email)])
InRequiredDomain(email) == DomainOf(email) = Some(REQUIRED_DOMAIN)

\* C23: every user record stores a lowercased email whose domain, the part after
\* the "@" that separates local part and domain, is exactly the required domain;
\* create_user called (with the store available) for any other email raises the
\* invalid-domain error and writes no record.
C23_StoredEmailInRequiredDomain ==
    /\ \A u \in DOMAIN users :
          /\ users[u].email = Lower(users[u].email)
          /\ InRequiredDomain(users[u].email)
    /\ (last.op = "create_user" /\ adb /\ ~InRequiredDomain(last.email)) =>
          (last.ret = "InvalidDomain" /\ last.user_id = None)

\* C23, as the code has it: every user record stores a lowercased email whose
\* text between the first and the second "@" (or the end) is the required domain,
\* and create_user raises the invalid-domain error for every other string.
C23_SecondSegmentIsRequiredDomain ==
    /\ \A u \in DOMAIN users :
          /\ users[u].email = Lower(users[u].email)
          /\ Len(users[u].email) >= 2
          /\ users[u].email[2] = REQUIRED_DOMAIN
    /\ (last.op = "create_user" /\ adb
          /\ (Len(last.email) < 2 \/ last.email[2] # REQUIRED_DOMAIN)) =>
          (last.ret = "InvalidDomain" /\ last.user_id = None)

\* C23 witness: create_user was called with "eve@asl.apps-eval.com@evil.example"
\* and wrote a record for it.
C23_Witness ==
    /\ last.op = "create_user"
    /\ last.email = EmTwoAts
    /\ last.ret = "ok"
    /\ users[last.user_id[1]].email = EmTwoAts

\* The formats of a frame that yield text, and the text of the first of them in
\* the order content.parts, candidates[].content.parts, flat text
Matching(frame) ==
    IF frame.line # "json" \/ ~frame.isobj THEN {}
    ELSE {f \in {1, 2, 3} :
            LET x == IF f = 1 THEN FromContent(frame.content)
                     ELSE IF f = 2 THEN FromCandidates(frame.candidates)
                     ELSE FromFlat(frame)
            IN  x.texts # <<>>}
FirstMatchTexts(frame) ==
    IF Matching(frame) = {} THEN <<>>
    ELSE IF 1 \in Matching(frame) THEN FromContent(frame.content).texts
    ELSE IF 2 \in Matching(frame) THEN FromCandidates(frame.candidates).texts
    ELSE FromFlat(frame).texts
RECURSIVE FirstMatchOf(_)
FirstMatchOf(lines) ==
    IF lines = <<>> THEN <<>>
    ELSE FirstMatchOf(SubSeq(lines, 1, Len(lines) - 1)) \o FirstMatchTexts(lines[Len(lines)])

\* C24: while the relay reads the upstream lines, the text increments it has
\* emitted are, line by line, the text of the first format that matches the line
\* in the order content.parts, candidates[].content.parts, flat text: a line that
\* matches more than one format contributes the text of the first one only.
C24_OneFormatPerFrame ==
    \A s \in DOMAIN rq :
        rq[s].pc = "ingest" => TextsOf(rq[s].out) = FirstMatchOf(rq[s].lines)

\* C24, as the code has it: the claim holds for the requests whose lines match
\* one format at most, and a line that matches several contributes the text of
\* each of them, in the priority order.
C24_EveryMatchingFormat ==
    \A s \in DOMAIN rq :
        rq[s].pc = "ingest" =>
            /\ (\A i \in DOMAIN rq[s].lines : Cardinality(Matching(rq[s].lines[i])) <= 1)
                  => TextsOf(rq[s].out) = FirstMatchOf(rq[s].lines)
            /\ \A i \in DOMAIN rq[s].lines :
                  LET frame == rq[s].lines[i]
                  IN  Cardinality(Matching(frame)) > 1 =>
                        ExtractLine(frame).texts =
                            FromContent(frame.content).texts
                            \o FromCandidates(frame.candidates).texts
                            \o FromFlat(frame).texts

\* C24 witness: one line carried text both in content.parts and in a flat text
\* member, and the relay emitted two increments for it.
C24_Witness ==
    /\ rq[1].pc = "ingest"
    /\ rq[1].lines = <<LineBoth>>
    /\ Len(TextsOf(rq[1].out)) = 2

\* C25: when reading the upstream response raised after the 200 status, the
\* stream ends with an error event carrying done=true, whether or not text had
\* been forwarded before, and that event is the only terminal one.
C25_IngestErrorIsErrorEvent ==
    \A s \in DOMAIN rq :
        (rq[s].pc = "done" /\ rq[s].ended = "error") =>
            /\ TerminalAt(rq[s].out) = {Len(rq[s].out)}
            /\ "error" \in DOMAIN rq[s].out[Len(rq[s].out)]

\* C25, as the code has it: when reading the upstream response raised, the stream
\* ends with exactly one terminal event; it is the error event when no text had
\* been collected, and otherwise the text collected so far is saved and the
\* terminal event is the one of a completed exchange (query_id or save_error),
\* with no error member.
C25_IngestErrorTerminates ==
    \A s \in DOMAIN rq :
        (rq[s].pc = "done" /\ rq[s].ended = "error") =>
            LET out == rq[s].out
                final == out[Len(out)]
            IN  /\ out # <<>>
                /\ TerminalAt(out) = {Len(out)}
                /\ rq[s].response_text = "" =>
                      (final = ErrorEvent([msg |-> "Stream error"]) /\ rq[s].saves = <<>>)
                /\ rq[s].response_text # "" =>
                      /\ "error" \notin DOMAIN final
                      /\ Len(rq[s].saves) = 1
                      /\ rq[s].saves[1].response = Concat(TextsOf(out))
                      /\ final = IF rq[s].saves[1].raised
                                 THEN SaveErrorEvent(IF hdb THEN "write failed"
                                                     ELSE "Firestore client not initialized")
                                 ELSE SavedEvent(rq[s].saves[1].id[1])

\* C25 witness: the connection broke after one line of text had been forwarded;
\* the stream ended with a query_id event and the partial text is in the store.
C25_Witness ==
    /\ rq[1].pc = "done"
    /\ rq[1].ended = "error"
    /\ rq[1].lines = <<LineHi>>
    /\ rq[1].saves # <<>>
    /\ ~rq[1].saves[1].raised
    /\ rq[1].out = <<TextEvent("Hi"), SavedEvent(rq[1].saves[1].id[1])>>
    /\ docs[rq[1].saves[1].id[1]].response = "Hi"

\* What the fallback is to emit for a response body that could be read: the text
\* of a single JSON object, and otherwise the body itself when it is not empty
WholeBodyTexts(raw) ==
    IF raw.data.line = "json" /\ raw.data.isobj THEN FromContent(raw.data.content).texts
    ELSE IF raw.raw # "" THEN <<raw.raw>>
    ELSE <<>>

\* C26: when the upstream 200 response has ended without a non-empty line, the
\* relay has read the whole body; when the body could be read, the increments
\* emitted are the text of the body if it is a single JSON object and otherwise
\* the non-empty body itself, and they make up the final text.
C26_NoFrameFallsBackToBody ==
    \A s \in DOMAIN rq :
        (rq[s].ended = "eof" /\ rq[s].line_count = 0) =>
            /\ rq[s].raw # None
            /\ rq[s].raw[1].kind # "raises" =>
                  /\ TextsOf(rq[s].out) = WholeBodyTexts(rq[s].raw[1])
                  /\ rq[s].response_text = Concat(WholeBodyTexts(rq[s].raw[1]))

\* C26, as the code has it: the body is read exactly when iter_lines produced no
\* line at all, blank ones included; a body that is a JSON object has the text of
\* its content.parts emitted, a non-empty body that is not JSON is emitted as one
\* increment and is the final text, and a body that is JSON but no object, or that
\* cannot be read, gives no increment.  A response of blank lines only ends with
\* no text.
C26_FallbackOnlyWithoutAnyLine ==
    \A s \in DOMAIN rq :
        rq[s].ended = "eof" =>
            /\ rq[s].raw # None <=> rq[s].chunk_count = 0
            /\ rq[s].raw # None =>
                  LET raw == rq[s].raw[1]
                      texts == IF raw.kind = "raises" THEN <<>>
                               ELSE IF raw.data.line = "json"
                               THEN IF raw.data.isobj
                                    THEN FromContent(raw.data.content).texts ELSE <<>>
                               ELSE IF raw.raw # "" THEN <<raw.raw>> ELSE <<>>
                  IN  /\ TextsOf(rq[s].out) = texts
                      /\ rq[s].response_text = Concat(texts)
            /\ (rq[s].raw = None /\ rq[s].line_count = 0) =>
                  (TextsOf(rq[s].out) = <<>> /\ rq[s].response_text = "")

\* C26 witness: a response of one blank line ended; the body was not read and the
\* stream ended with the empty-response warning.
C26_Witness ==
    /\ rq[1].pc = "done"
    /\ rq[1].ended = "eof"
    /\ rq[1].lines = <<LineBlank>>
    /\ rq[1].raw = None
    /\ rq[1].out = <<EmptyEvent>>

\* C27: the relay does not read the upstream response past the overall timeout
\* of 180 seconds, however often lines arrive; and when a timeout has ended the
\* reading, the relay finalizes with the text it has: non-empty text is saved
\* and the terminal event carries the query_id (or the save error), empty text
\* gives the terminal event with the empty-response warning.
C27_TimeoutsTruncateAndFinalize ==
    \A s \in DOMAIN rq :
        /\ rq[s].pc = "ingest" => rq[s].elapsed <= REQUEST_TIMEOUT
        /\ (rq[s].pc = "done" /\ rq[s].ended = "read_timeout") =>
              LET final == rq[s].out[Len(rq[s].out)]
              IN  /\ rq[s].out # <<>>
                  /\ "error" \notin DOMAIN final
                  /\ rq[s].response_text = "" => final = EmptyEvent
                  /\ rq[s].response_text # "" =>
                        ("query_id" \in DOMAIN final \/ "save_error" \in DOMAIN final)

\* C27, as the code has it: every wait for a line is under 180 seconds, and a
\* wait that reaches 180 seconds ends the stream with exactly one terminal event:
\* the stream-error event when no text was collected, and the event of a
\* completed exchange, after the save of the partial text, otherwise.
C27_ReadTimeoutIsStreamError ==
    \A s \in DOMAIN rq :
        /\ rq[s].elapsed <= Len(rq[s].lines) * (REQUEST_TIMEOUT - 1)
                              + (IF rq[s].ended = "read_timeout" THEN REQUEST_TIMEOUT ELSE 0)
        /\ (rq[s].pc = "done" /\ rq[s].ended = "read_timeout") =>
              LET out == rq[s].out
                  final == out[Len(out)]
              IN  /\ out # <<>>
                  /\ TerminalAt(out) = {Len(out)}
                  /\ rq[s].response_text = "" =>
                        (final = ErrorEvent([msg |-> "Stream error"]) /\ rq[s].saves = <<>>)
                  /\ rq[s].response_text # "" =>
                        /\ Len(rq[s].saves) = 1
                        /\ rq[s].saves[1].response = Concat(TextsOf(out))
                        /\ ("query_id" \in DOMAIN final \/ "save_error" \in DOMAIN final)

\* C27 witness: two lines arrived 120 seconds apart each, so that the relay is
\* still reading the response 240 seconds after it posted the request.
C27_Witness ==
    /\ rq[1].pc = "ingest"
    /\ Len(rq[1].lines) = 2
    /\ rq[1].elapsed > REQUEST_TIMEOUT

\* C28: a call of load_agent_configs scans the directory service exactly when the
\* cache is unset, or 300 seconds or more have passed since it was filled, or
\* force_refresh is true.  Without a scan it returns the cached set and leaves
\* cache and timestamp alone; with a scan, the scan result is returned and is the
\* new cache, and the timestamp is the time of the call.
C28_CacheTtlAndForceRefresh ==
    [][last'.op \in {"list_agents", "import"} =>
          /\ last'.scanned <=> \/ cache = None
                               \/ now - cacheTime >= 300
                               \/ last'.force_refresh
          /\ ~last'.scanned =>
                /\ cache' = cache
                /\ cacheTime' = cacheTime
                /\ last'.ret = SortedAgents(cache[1])
          /\ last'.scanned =>
                /\ cache' # None
                /\ cacheTime' = now
                /\ last'.ret = SortedAgents(cache'[1])
                /\ \E outcome \in ScanOutcomes :
                      cache' = Some(scan_agent_engine_reasoning_engines(outcome))]_vars

\* C28 witness: a listing without force_refresh, 300 seconds after the cache was
\* filled, scanned the directory service and the cache holds the two agents found.
C28_Witness ==
    /\ last.op = "list_agents"
    /\ ~last.force_refresh
    /\ last.scanned
    /\ now = AGENT_CONFIGS_CACHE_TTL
    /\ cacheTime = now
    /\ cache = Some(ConfigsOf(<<EngBilling, EngDraft>>))

\* The texts the upstream of request s can have sent: those of its own lines and
\* of its own raw body
OwnTexts(s) ==
    {ExtractedFrom(rq[s].lines)[i] : i \in 1 .. Len(ExtractedFrom(rq[s].lines))}
    \cup (IF rq[s].raw = None THEN {}
          ELSE {RawFallback("", rq[s].raw[1]).texts[i] :
                  i \in 1 .. Len(RawFallback("", rq[s].raw[1]).texts)})

\* C29: with two /query/stream requests interleaved in any order, every increment
\* a request has emitted is text of its own upstream response, what it posted
\* upstream and what it saved carry its own token's user id, its own agent name
\* and message and its own text, the record stored under the id it was given
\* holds exactly these values, no two requests were given the same id, a step of
\* one request changes nothing of the other and no stored record, and the
\* registry cache after a step is what it was or the result of a scan.
C29_RequestsAreIsolated ==
    /\ [](\A s \in DOMAIN rq : Started(s) =>
            LET r == rq[s]
                claims == decode_token(r.token[1])[1]
            IN  /\ \A i \in 1 .. Len(TextsOf(r.out)) : TextsOf(r.out)[i] \in OwnTexts(s)
                /\ r.response_text = Concat(TextsOf(r.out))
                /\ r.user_id = claims.user_id
                /\ r.agent_name = r.body[1].agent_name
                /\ r.message = r.body[1].message
                /\ \A i \in 1 .. Len(r.posts) :
                      r.posts[i].input = [message |-> r.message, user_id |-> r.user_id]
                /\ \A i \in 1 .. Len(r.saves) :
                      /\ r.saves[i].user_id = r.user_id
                      /\ r.saves[i].agent_name = r.agent_name
                      /\ r.saves[i].message = r.message
                      /\ r.saves[i].response = r.response_text
                      /\ ~r.saves[i].raised =>
                            LET id == r.saves[i].id[1]
                            IN  /\ id \in DOMAIN docs
                                /\ docs[id].user_id = r.user_id
                                /\ docs[id].agent_name = r.agent_name
                                /\ docs[id].message = r.message
                                /\ docs[id].response = r.response_text
                                /\ \A t \in DOMAIN rq \ {s} : \A j \in 1 .. Len(rq[t].saves) :
                                      rq[t].saves[j].id # Some(id))
    /\ [][/\ \A s \in DOMAIN rq : rq'[s] # rq[s] =>
                \A t \in DOMAIN rq \ {s} : rq'[t] = rq[t]
          /\ \A id \in DOMAIN docs : id \in DOMAIN docs' /\ docs'[id] = docs[id]
          /\ \/ cache' = cache
             \/ \E outcome \in ScanOutcomes :
                   cache' = Some(scan_agent_engine_reasoning_engines(outcome))]_vars

\* C29 witness: both requests have ended, each after two lines of its own
\* upstream, two records are stored, and the registry cache was replaced while
\* they ran.
C29_Witness ==
    /\ \A s \in {1, 2} :
          /\ rq[s].pc = "done"
          /\ Len(rq[s].lines) = 2
          /\ rq[s].saves # <<>>
          /\ ~rq[s].saves[1].raised
    /\ rq[1].response_text = "HiHi"
    /\ rq[2].response_text = "tt"
    /\ Cardinality(DOMAIN docs) = 2
    /\ cacheTime > 0

\* C30: when the store refuses the ordered query for lack of the index, what
\* get_query_history returns is what the ordered query would have returned: the
\* `limit` newest records of the user, newest first, whatever the number of
\* records the user has.
C30_FallbackEqualsOrdered ==
    (last.op = "get_query_history" /\ last.path = "no_index") =>
        last.ret = get_query_history(last.user_id, last.limit, "ordered")

\* C30, as the code has it: the fallback returns records of the user, each once,
\* newest first, taken from the 2 x limit records with the lowest document ids
\* and as many as min(limit, number of those); it is the result of the ordered
\* query whenever the user has no more than 2 x limit records.
C30_FallbackEqualsOrderedUpToTwiceLimit ==
    (last.op = "get_query_history" /\ last.path = "no_index" /\ hdb /\ last.user_id # "") =>
        LET mine == WhereUser(last.user_id)
            fetched == {id \in mine :
                          Cardinality({x \in mine : x < id}) < 2 * last.limit}
            ret == last.ret
        IN  /\ Len(ret) = Min(last.limit, Cardinality(fetched))
            /\ \A i \in 1 .. Len(ret) : ret[i].id \in fetched /\ ret[i] = Item(ret[i].id)
            /\ \A i \in 1 .. Len(ret), j \in 1 .. Len(ret) :
                  i < j => docs[ret[j].id].timestamp < docs[ret[i].id].timestamp
            /\ \A id \in fetched :
                  (\A i \in 1 .. Len(ret) : ret[i].id # id) =>
                      \A i \in 1 .. Len(ret) :
                          docs[id].timestamp < docs[ret[i].id].timestamp
            /\ Cardinality(mine) <= 2 * last.limit =>
                  ret = get_query_history(last.user_id, last.limit, "ordered")

\* C30 witness: the user has three records, the newest under the highest
\* document id; asked for one record without the index, the store handed over
\* the two with the lowest ids and the newer of these was returned.
C30_Witness ==
    /\ last.op = "get_query_history"
    /\ last.path = "no_index"
    /\ last.limit = 1
    /\ WhereUser(last.user_id) = DocIds
    /\ Len(last.ret) = 1
    /\ last.ret # get_query_history(last.user_id, 1, "ordered")
    /\ get_query_history(last.user_id, 1, "ordered")[1].id = MaxDocs
====
